---- MODULE Spec2Model ----
(***************************************************************************)
(* A model of the ai-job-finder query pipeline: query parsing              *)
(* (openai_parser.py), source aggregation (job_sources.py), matching and   *)
(* deduplication (job_filter.py), orchestrated by agent.py.                *)
(*                                                                         *)
(* Python str values are sequences of one-character strings, so that       *)
(* substring tests, lower(), split() and the regular expressions are       *)
(* computed character by character as the interpreter computes them.       *)
(***************************************************************************)
EXTENDS Integers, Sequences, FiniteSets, TLC

(***************************************************************************)
(* Bounds of the model.                                                    *)
(***************************************************************************)
\* longest posting list handed to filter_jobs / deduplicate_jobs
MaxJobs == 2

(***************************************************************************)
(* Python str primitives.                                                  *)
(***************************************************************************)
\* str.lower() on one ASCII character
LowerMap == [A |-> "a", B |-> "b", C |-> "c", D |-> "d", E |-> "e", F |-> "f",
             G |-> "g", H |-> "h", I |-> "i", J |-> "j", K |-> "k", L |-> "l",
             M |-> "m", N |-> "n", O |-> "o", P |-> "p", Q |-> "q", R |-> "r",
             S |-> "s", T |-> "t", U |-> "u", V |-> "v", W |-> "w", X |-> "x",
             Y |-> "y", Z |-> "z"]

LowerLetters == {LowerMap[c] : c \in DOMAIN LowerMap}

Digits == {"0", "1", "2", "3", "4", "5", "6", "7", "8", "9"}

\* the characters matched by \s and dropped by str.split() / str.strip()
Whitespace == {" ", "\t"}

LowerChar(c) == IF c \in DOMAIN LowerMap THEN LowerMap[c] ELSE c

\* str.lower()
Lower(s) == [i \in 1..Len(s) |-> LowerChar(s[i])]

\* the Python test  t in s  on strings
Contains(s, t) ==
    \E i \in 0..(Len(s) - Len(t)) : SubSeq(s, i + 1, i + Len(t)) = t

\* str.split() with no argument: the maximal runs of non-whitespace
RECURSIVE SplitFrom(_, _, _, _)
SplitFrom(s, i, cur, acc) ==
    IF i > Len(s)
    THEN IF cur = <<>> THEN acc ELSE Append(acc, cur)
    ELSE IF s[i] \in Whitespace
         THEN SplitFrom(s, i + 1, <<>>,
                        IF cur = <<>> THEN acc ELSE Append(acc, cur))
         ELSE SplitFrom(s, i + 1, Append(cur, s[i]), acc)

Split(s) == SplitFrom(s, 1, <<>>, <<>>)

\* ' '.join(words)
RECURSIVE JoinSpace(_)
JoinSpace(words) ==
    IF words = <<>> THEN <<>>
    ELSE IF Len(words) = 1 THEN words[1]
    ELSE words[1] \o <<" ">> \o JoinSpace(Tail(words))

\* dict.get(k, default)
Get(d, k, default) == IF k \in DOMAIN d THEN d[k] ELSE default

(***************************************************************************)
(* The texts the model draws postings, filters and queries from.           *)
(***************************************************************************)
\* "Registered Nurse"
T_RegisteredNurse == <<"R","e","g","i","s","t","e","r","e","d"," ","N","u",
    "r","s","e">>
\* "Software Engineer"
T_SoftwareEngineer == <<"S","o","f","t","w","a","r","e"," ","E","n","g","i",
    "n","e","e","r">>
\* "software  engineer "
T_SoftwareEngineer2 == <<"s","o","f","t","w","a","r","e"," "," ","e","n",
    "g","i","n","e","e","r"," ">>
\* "Nurse"
T_Nurse == <<"N","u","r","s","e">>
\* "Job 2"
T_Job2 == <<"J","o","b"," ","2">>
\* "Dutch Speaker"
T_DutchSpeaker == <<"D","u","t","c","h"," ","S","p","e","a","k","e","r">>
\* "TechCo"
C_TechCo == <<"T","e","c","h","C","o">>
\* "TECHCO!"
C_TechCo2 == <<"T","E","C","H","C","O","!">>
\* "Hospital"
C_Hospital == <<"H","o","s","p","i","t","a","l">>
\* "Co2"
C_Co2 == <<"C","o","2">>
\* "Amsterdam, Netherlands"
L_AmsterdamNL == <<"A","m","s","t","e","r","d","a","m",","," ","N","e","t",
    "h","e","r","l","a","n","d","s">>
\* "Amsterdam"
L_Amsterdam == <<"A","m","s","t","e","r","d","a","m">>
\* "Rotterdam"
L_Rotterdam == <<"R","o","t","t","e","r","d","a","m">>
\* "Remote"
L_Remote == <<"R","e","m","o","t","e">>
\* "Utrecht"
L_Utrecht == <<"U","t","r","e","c","h","t">>
\* "NL"
L_NL == <<"N","L">>
\* "English speaking environment. No Dutch required."
D_NoDutchRequired == <<"E","n","g","l","i","s","h"," ","s","p","e","a","k",
    "i","n","g"," ","e","n","v","i","r","o","n","m","e","n","t","."," ","N",
    "o"," ","D","u","t","c","h"," ","r","e","q","u","i","r","e","d",".">>
\* "Python developer. WFH."
D_PythonWfh == <<"P","y","t","h","o","n"," ","d","e","v","e","l","o","p",
    "e","r","."," ","W","F","H",".">>
\* "Fluent in Dutch needed"
D_FluentDutch == <<"F","l","u","e","n","t"," ","i","n"," ","D","u","t","c",
    "h"," ","n","e","e","d","e","d">>
\* "English only position"
D_EnglishOnly == <<"E","n","g","l","i","s","h"," ","o","n","l","y"," ","p",
    "o","s","i","t","i","o","n">>
\* "Remote work. English and Python."
D_RemoteEnglish == <<"R","e","m","o","t","e"," ","w","o","r","k","."," ",
    "E","n","g","l","i","s","h"," ","a","n","d"," ","P","y","t","h","o","n",
    ".">>
\* "nurse"
W_nurse == <<"n","u","r","s","e">>
\* "Dutch"
W_Dutch == <<"D","u","t","c","h">>
\* "German"
W_German == <<"G","e","r","m","a","n">>
\* "engineer"
W_engineer == <<"e","n","g","i","n","e","e","r">>
\* "English"
W_English == <<"E","n","g","l","i","s","h">>
\* "Python"
W_Python == <<"P","y","t","h","o","n">>
\* "Senior Nurse"
W_SeniorNurse == <<"S","e","n","i","o","r"," ","N","u","r","s","e">>
\* "amsterdam"
W_amsterdam == <<"a","m","s","t","e","r","d","a","m">>
\* " "
W_Space == <<" ">>
\* "Remote"
W_Remote == <<"R","e","m","o","t","e">>
\* "url1"
U_url1 == <<"u","r","l","1">>
\* "url2"
U_url2 == <<"u","r","l","2">>

(***************************************************************************)
(* job_filter.py : JobFilter                                               *)
(***************************************************************************)
\* a posting is a dict from some of these keys to str
PostingKeys == {"id", "title", "company", "location", "url", "source",
                "description"}

\* the filter keys _matches_filters reads
StrKeys == {"role", "location"}
ListKeys == {"exclude_language", "language_required", "keywords"}
BoolKeys == {"remote"}
FilterKeys == StrKeys \cup ListKeys \cup BoolKeys

\* the numeric keys of the prompt's schema, which no later stage reads
NumKeys == {"salary_min", "salary_max"}

\* the truth value Python gives filters.get(k): a missing key, "", [] and
\* False are all false
FilterTruthy(f, k) ==
    /\ k \in DOMAIN f
    /\ IF k \in BoolKeys THEN f[k] = TRUE ELSE f[k] # <<>>

\* the elements a Python loop or any(...) goes through
Items(xs) == {xs[i] : i \in 1..Len(xs)}

\* the seven phrases built for one excluded language
LanguagePatterns(lang_lower) ==
    << lang_lower \o <<" ","r","e","q","u","i","r","e","d">>,
       lang_lower \o <<" ","p","r","o","f","i","c","i","e","n","c","y">>,
       <<"f","l","u","e","n","t"," ","i","n"," ">> \o lang_lower,
       <<"s","p","e","a","k"," ">> \o lang_lower,
       <<"n","a","t","i","v","e"," ">> \o lang_lower,
       lang_lower \o <<" ","s","p","e","a","k","e","r">>,
       lang_lower \o <<" ","l","a","n","g","u","a","g","e">> >>

RemoteKeywords ==
    << <<"r","e","m","o","t","e">>,
       <<"w","o","r","k"," ","f","r","o","m"," ","h","o","m","e">>,
       <<"w","f","h">>,
       <<"d","i","s","t","r","i","b","u","t","e","d">> >>

\* "if filters.get('role'): ... return False"
RoleRejects(job, filters) ==
    /\ FilterTruthy(filters, "role")
    /\ LET role_keywords == Split(Lower(filters["role"]))
           title_lower == Lower(Get(job, "title", <<>>))
           description_lower == Lower(Get(job, "description", <<>>))
           hit(keyword) == \/ Contains(title_lower, keyword)
                           \/ Contains(description_lower, keyword)
       IN  ~ \E x \in Items(role_keywords) : hit(x)

\* "if filters.get('location'): ... return False"
LocationRejects(job, filters) ==
    /\ FilterTruthy(filters, "location")
    /\ LET location_filter == Lower(filters["location"])
           job_location == Lower(Get(job, "location", <<>>))
       IN  ~ Contains(job_location, location_filter)

\* "if filters.get('exclude_language'): ... return False"
ExcludeLanguageRejects(job, filters) ==
    /\ FilterTruthy(filters, "exclude_language")
    /\ LET description_lower == Lower(Get(job, "description", <<>>))
           title_lower == Lower(Get(job, "title", <<>>))
           hit(pattern) == \/ Contains(description_lower, pattern)
                           \/ Contains(title_lower, pattern)
           bad(lang) == \E x \in Items(LanguagePatterns(Lower(lang))) : hit(x)
       IN  \E x \in Items(filters["exclude_language"]) : bad(x)

\* "if filters.get('language_required'): ... return False"
LanguageRequiredRejects(job, filters) ==
    /\ FilterTruthy(filters, "language_required")
    /\ LET description_lower == Lower(Get(job, "description", <<>>))
           missing(lang) == ~ Contains(description_lower, Lower(lang))
       IN  \E x \in Items(filters["language_required"]) : missing(x)

\* KeywordsRejects looking for the keywords in the description only
KeywordsRejects_DescriptionOnly(job, filters) ==
    /\ FilterTruthy(filters, "keywords")
    /\ LET description_lower == Lower(Get(job, "description", <<>>))
           missing(keyword) == ~ Contains(description_lower, Lower(keyword))
       IN  \E x \in Items(filters["keywords"]) : missing(x)

\* "if filters.get('keywords'): ... return False"
KeywordsRejects(job, filters) ==
    /\ FilterTruthy(filters, "keywords")
    /\ LET description_lower == Lower(Get(job, "description", <<>>))
           title_lower == Lower(Get(job, "title", <<>>))
           missing(keyword) ==
               /\ ~ Contains(description_lower, Lower(keyword))
               /\ ~ Contains(title_lower, Lower(keyword))
       IN  \E x \in Items(filters["keywords"]) : missing(x)

\* RemoteRejects applied whenever the filter does not say remote = True
RemoteRejects_Inverted(job, filters) ==
    /\ ~ FilterTruthy(filters, "remote")
    /\ LET location_lower == Lower(Get(job, "location", <<>>))
           description_lower == Lower(Get(job, "description", <<>>))
           hit(keyword) == \/ Contains(location_lower, keyword)
                           \/ Contains(description_lower, keyword)
       IN  ~ \E x \in Items(RemoteKeywords) : hit(x)

\* "if filters.get('remote'): ... return False"
RemoteRejects(job, filters) ==
    /\ FilterTruthy(filters, "remote")
    /\ LET location_lower == Lower(Get(job, "location", <<>>))
           description_lower == Lower(Get(job, "description", <<>>))
           hit(keyword) == \/ Contains(location_lower, keyword)
                           \/ Contains(description_lower, keyword)
       IN  ~ \E x \in Items(RemoteKeywords) : hit(x)

\* JobFilter._matches_filters: the six blocks in source order, each with
\* its early "return False"
MatchesFilters(job, filters) ==
    IF RoleRejects(job, filters) THEN FALSE
    ELSE IF LocationRejects(job, filters) THEN FALSE
    ELSE IF ExcludeLanguageRejects(job, filters) THEN FALSE
    ELSE IF LanguageRequiredRejects(job, filters) THEN FALSE
    ELSE IF KeywordsRejects(job, filters) THEN FALSE
    ELSE IF RemoteRejects(job, filters) THEN FALSE
    ELSE TRUE

\* JobFilter.filter_jobs: the loop appending every matching job
RECURSIVE FilterLoop(_, _, _, _)
FilterLoop(jobs, f, i, acc) ==
    IF i > Len(jobs) THEN acc
    ELSE FilterLoop(jobs, f, i + 1,
                    IF MatchesFilters(jobs[i], f) THEN Append(acc, jobs[i])
                    ELSE acc)

FilterJobs(jobs, f) == FilterLoop(jobs, f, 1, <<>>)

\* the characters re.sub(r'[^a-z0-9\s]', '', text) keeps
NormalizeKeeps(c) == c \in LowerLetters \cup Digits \cup Whitespace

\* NormalizeText without the ' '.join(text.split()) step
NormalizeText_NoCollapse(text) == SelectSeq(Lower(text), NormalizeKeeps)

\* JobFilter._normalize_text
NormalizeText(text) ==
    JoinSpace(Split(SelectSeq(Lower(text), NormalizeKeeps)))

\* DedupKey with the location as a third component
DedupKey_WithLocation(job) ==
    << NormalizeText(Get(job, "title", <<>>)),
       NormalizeText(Get(job, "company", <<>>)),
       NormalizeText(Get(job, "location", <<>>)) >>

\* the key deduplicate_jobs builds for one job
DedupKey(job) ==
    << NormalizeText(Get(job, "title", <<>>)),
       NormalizeText(Get(job, "company", <<>>)) >>

\* DedupLoop without "seen.add(key)"
RECURSIVE DedupLoop_NoSeenAdd(_, _, _, _)
DedupLoop_NoSeenAdd(jobs, i, seen, unique) ==
    IF i > Len(jobs) THEN unique
    ELSE LET key == DedupKey(jobs[i])
         IN  IF key \notin seen
             THEN DedupLoop_NoSeenAdd(jobs, i + 1, seen,
                                      Append(unique, jobs[i]))
             ELSE DedupLoop_NoSeenAdd(jobs, i + 1, seen, unique)

\* DedupLoop with the test inverted and seen.add(key) outside the if
RECURSIVE DedupLoop_KeepsRepeats(_, _, _, _)
DedupLoop_KeepsRepeats(jobs, i, seen, unique) ==
    IF i > Len(jobs) THEN unique
    ELSE LET key == DedupKey(jobs[i])
         IN  IF key \in seen
             THEN DedupLoop_KeepsRepeats(jobs, i + 1, seen \cup {key},
                                         Append(unique, jobs[i]))
             ELSE DedupLoop_KeepsRepeats(jobs, i + 1, seen \cup {key},
                                         unique)

\* JobFilter.deduplicate_jobs: the loop over jobs with the seen set
RECURSIVE DedupLoop(_, _, _, _)
DedupLoop(jobs, i, seen, unique) ==
    IF i > Len(jobs) THEN unique
    ELSE LET key == DedupKey(jobs[i])
         IN  IF key \notin seen
             THEN DedupLoop(jobs, i + 1, seen \cup {key},
                            Append(unique, jobs[i]))
             ELSE DedupLoop(jobs, i + 1, seen, unique)

DeduplicateJobs(jobs) == DedupLoop(jobs, 1, {}, <<>>)

\* "nurse in Utrecht, no Dutch required"
Q_NurseUtrecht == <<"n","u","r","s","e"," ","i","n"," ","U","t","r","e","c",
    "h","t",","," ","n","o"," ","D","u","t","c","h"," ","r","e","q","u","i",
    "r","e","d">>
\* "nurse in Amsterdam"
Q_NurseAmsterdam == <<"n","u","r","s","e"," ","i","n"," ","A","m","s","t",
    "e","r","d","a","m">>
\* "software engineer in Amsterdam, remote"
Q_EngineerRemote == <<"s","o","f","t","w","a","r","e"," ","e","n","g","i",
    "n","e","e","r"," ","i","n"," ","A","m","s","t","e","r","d","a","m",",",
    " ","r","e","m","o","t","e">>
\* "senior engineer, no Dutch required"
Q_SeniorNoDutch == <<"s","e","n","i","o","r"," ","e","n","g","i","n","e",
    "e","r",","," ","n","o"," ","D","u","t","c","h"," ","r","e","q","u","i",
    "r","e","d">>
\* "Utrecht"
W_Utrecht == <<"U","t","r","e","c","h","t">>
\* "abc"
W_abc == <<"a","b","c">>

\* "airbnb"
B_airbnb == <<"a","i","r","b","n","b">>
\* "doordash"
B_doordash == <<"d","o","o","r","d","a","s","h">>
\* "gitlab"
B_gitlab == <<"g","i","t","l","a","b">>
\* "grammarly"
B_grammarly == <<"g","r","a","m","m","a","r","l","y">>
\* "robinhood"
B_robinhood == <<"r","o","b","i","n","h","o","o","d">>
\* "netflix"
B_netflix == <<"n","e","t","f","l","i","x">>
\* "spotify"
B_spotify == <<"s","p","o","t","i","f","y">>
\* "lyft"
B_lyft == <<"l","y","f","t">>
\* "databricks"
B_databricks == <<"d","a","t","a","b","r","i","c","k","s">>
\* "stripe"
B_stripe == <<"s","t","r","i","p","e">>
\* "signifyd"
B_signifyd == <<"s","i","g","n","i","f","y","d">>
\* "omnipresent"
B_omnipresent == <<"o","m","n","i","p","r","e","s","e","n","t">>
\* "ometria"
B_ometria == <<"o","m","e","t","r","i","a">>
\* "Greenhouse"
N_Greenhouse == <<"G","r","e","e","n","h","o","u","s","e">>
\* "Lever"
N_Lever == <<"L","e","v","e","r">>
\* "Workable"
N_Workable == <<"W","o","r","k","a","b","l","e">>
\* "Google Jobs"
N_GoogleJobs == <<"G","o","o","g","l","e"," ","J","o","b","s">>
\* "gh_"
P_gh == <<"g","h","_">>
\* "lever_"
P_lever == <<"l","e","v","e","r","_">>
\* "workable_"
P_workable == <<"w","o","r","k","a","b","l","e","_">>
\* "google_"
P_google == <<"g","o","o","g","l","e","_">>
\* "None"
K_None == <<"N","o","n","e">>
\* "1"
I_1 == <<"1">>
\* "2"
I_2 == <<"2">>
\* "Spotify"
C_Spotify == <<"S","p","o","t","i","f","y">>
\* "Netherlands"
L_Netherlands == <<"N","e","t","h","e","r","l","a","n","d","s">>

(***************************************************************************)
(* openai_parser.py : the str and re primitives local_parse uses.          *)
(***************************************************************************)
\* [a-zA-Z]
Letters == LowerLetters \cup DOMAIN LowerMap

\* \w, the characters on the word side of \b
WordChars == Letters \cup Digits \cup {"_"}

\* [a-zA-Z\-\s], the class of the location group
LocationChars == Letters \cup {"-"} \cup Whitespace

\* str.upper() on one ASCII character
UpperChar(c) ==
    IF c \in LowerLetters THEN CHOOSE u \in DOMAIN LowerMap : LowerMap[u] = c
    ELSE c

\* str.title(): a letter is upper-cased unless the character before it is
\* a letter, in which case it is lower-cased
Title(s) ==
    [i \in 1..Len(s) |->
        IF s[i] \in Letters
        THEN IF i > 1 /\ s[i - 1] \in Letters THEN LowerChar(s[i])
             ELSE UpperChar(s[i])
        ELSE s[i]]

\* str.strip()
Strip(s) ==
    LET keep == {i \in 1..Len(s) : s[i] \notin Whitespace}
    IN  IF keep = {} THEN <<>>
        ELSE SubSeq(s, CHOOSE a \in keep : \A b \in keep : a <= b,
                       CHOOSE a \in keep : \A b \in keep : a >= b)

\* s[i:].startswith(t), i counted from 1
StartsWithAt(s, i, t) ==
    /\ i + Len(t) - 1 <= Len(s)
    /\ SubSeq(s, i, i + Len(t) - 1) = t

\* the position after the longest run of characters of chars from i on
\* (what a greedy  [chars]*  consumes)
RECURSIVE RunEnd(_, _, _)
RunEnd(s, i, chars) ==
    IF i <= Len(s) /\ s[i] \in chars THEN RunEnd(s, i + 1, chars) ELSE i

\* str.split(',', 1)[0]
BeforeComma(s) ==
    LET commas == {i \in 1..Len(s) : s[i] = ","}
    IN  IF commas = {} THEN s
        ELSE SubSeq(s, 1, (CHOOSE a \in commas : \A b \in commas : a <= b) - 1)

\* str.replace(t, ''), t not empty
RECURSIVE RemoveAll(_, _, _)
RemoveAll(s, i, t) ==
    IF i > Len(s) THEN <<>>
    ELSE IF StartsWithAt(s, i, t) THEN RemoveAll(s, i + Len(t), t)
    ELSE <<s[i]>> \o RemoveAll(s, i + 1, t)

K_no == <<"n","o">>
K_not == <<"n","o","t">>
K_without == <<"w","i","t","h","o","u","t">>
K_in == <<"i","n">>
K_with == <<"w","i","t","h">>
K_but == <<"b","u","t">>
K_remote == <<"r","e","m","o","t","e">>
K_work_from_home == <<"w","o","r","k"," ","f","r","o","m"," ","h","o","m","e">>
K_wfh == <<"w","f","h">>
K_required == <<"r","e","q","u","i","r","e","d">>
K_needed == <<"n","e","e","d","e","d">>
K_necessary == <<"n","e","c","e","s","s","a","r","y">>

\* the alternatives of (?:required|needed|necessary)
NegationSuffixes == <<K_required, K_needed, K_necessary>>

\* the vocabulary of the keyword scan
KeywordVocabulary ==
    << <<"s","e","n","i","o","r">>, <<"j","u","n","i","o","r">>,
       <<"m","a","n","a","g","e","r">>,
       <<"s","p","e","c","i","a","l","i","s","t">>,
       <<"e","n","g","i","n","e","e","r">>, <<"n","u","r","s","e">> >>

NoMatch == [ok |-> FALSE, group |-> <<>>, end |-> 0]

\* a match of  <prefix>\s+([a-zA-Z]+)  starting at i: the group and the
\* position after the match
PrefixWordAt(s, i, prefix) ==
    LET w1 == i + Len(prefix)
        w2 == RunEnd(s, w1, Whitespace)
        g2 == RunEnd(s, w2, Letters)
    IN  IF StartsWithAt(s, i, prefix) /\ w2 > w1 /\ g2 > w2
        THEN [ok |-> TRUE, group |-> SubSeq(s, w2, g2 - 1), end |-> g2]
        ELSE NoMatch

\* what follows the prefix and the word m in the patterns of local_parse:
\*   "required": no\s+([a-zA-Z]+)\s+(?:required|needed|necessary)
\*   "no"      : no\s+([a-zA-Z]+)\b
\*   "without" : without\s+([a-zA-Z]+)\b
\*   "strip"   : no\s+[a-zA-Z]+
MatchTail(kind, s, m) ==
    LET w3 == RunEnd(s, m.end, Whitespace)
        tails == {k \in 1..Len(NegationSuffixes) :
                     StartsWithAt(s, w3, NegationSuffixes[k])}
    IN  IF ~ m.ok THEN NoMatch
        ELSE IF kind = "strip" THEN m
        ELSE IF kind = "required"
        THEN IF w3 > m.end /\ tails # {}
             THEN [m EXCEPT !.end =
                      w3 + Len(NegationSuffixes[CHOOSE k \in tails : TRUE])]
             ELSE NoMatch
        ELSE IF m.end > Len(s) \/ s[m.end] \notin WordChars THEN m
        ELSE NoMatch

\* a match at i of one of the patterns of local_parse
MatchAt(kind, s, i) ==
    MatchTail(kind, s,
              PrefixWordAt(s, i, IF kind = "without" THEN K_without ELSE K_no))

\* [m.group(1) for m in re.finditer(pattern, s)]: leftmost matches, each
\* search resuming where the previous match ended
RECURSIVE FindGroups(_, _, _)
FindGroups(kind, s, i) ==
    IF i > Len(s) THEN <<>>
    ELSE LET m == MatchAt(kind, s, i)
         IN  IF m.ok THEN <<m.group>> \o FindGroups(kind, s, m.end)
             ELSE FindGroups(kind, s, i + 1)

\* re.sub(r'no\s+[a-zA-Z]+', '', s)
RECURSIVE StripNegations(_, _)
StripNegations(s, i) ==
    IF i > Len(s) THEN <<>>
    ELSE LET m == MatchAt("strip", s, i)
         IN  IF m.ok THEN StripNegations(s, m.end)
             ELSE <<s[i]>> \o StripNegations(s, i + 1)

\* re.sub(r'\bremote\b', '', s)
RECURSIVE StripRemoteWord(_, _)
StripRemoteWord(s, i) ==
    IF i > Len(s) THEN <<>>
    ELSE IF /\ StartsWithAt(s, i, K_remote)
            /\ i = 1 \/ s[i - 1] \notin WordChars
            /\ i + 6 > Len(s) \/ s[i + 6] \notin WordChars
         THEN StripRemoteWord(s, i + 6)
         ELSE <<s[i]>> \o StripRemoteWord(s, i + 1)

\* a match of  \bin\s+([a-zA-Z\-\s]+?)(?:,|$)  starting at i.  The greedy
\* \s+ takes the whole run of whitespace; the lazy group then runs to the
\* first comma or to the end and fails on any other character.  When
\* nothing is left for the group, \s+ gives one whitespace back to it.
LocationAt(s, i) ==
    LET w1 == i + 2
        w2 == RunEnd(s, w1, Whitespace)
        e  == RunEnd(s, w2, LocationChars)
        stop(k) == k > Len(s) \/ s[k] = ","
    IN  IF ~ ( /\ StartsWithAt(s, i, K_in)
               /\ i = 1 \/ s[i - 1] \notin WordChars
               /\ w2 > w1 )
        THEN NoMatch
        ELSE IF e > w2
        THEN IF stop(e)
             THEN [ok |-> TRUE, group |-> SubSeq(s, w2, e - 1), end |-> e]
             ELSE NoMatch
        ELSE IF w2 - w1 >= 2 /\ stop(w2)
        THEN [ok |-> TRUE, group |-> <<s[w2 - 1]>>, end |-> w2]
        ELSE NoMatch

\* re.search of the location pattern: the start of the leftmost match,
\* 0 when there is none
LocationStart(s) ==
    LET starts == {i \in 1..Len(s) : LocationAt(s, i).ok}
    IN  IF starts = {} THEN 0
        ELSE CHOOSE a \in starts : \A b \in starts : a <= b

(***************************************************************************)
(* openai_parser.py : JobQueryParser.parse_query.local_parse               *)
(***************************************************************************)
\* the dict {key: value} when cond holds, {} otherwise
Entry(cond, key, value) ==
    IF cond THEN [k \in {key} |-> value] ELSE [k \in {} |-> value]

\* the first loop: every group of the "no X required" pattern is appended
TitleAll(groups) == [i \in 1..Len(groups) |-> Title(groups[i])]

\* the second and third loops: a group is appended, title-cased, unless it
\* is already in the list or is one of the skipped words
RECURSIVE AddLangs(_, _, _, _)
AddLangs(exclude_langs, groups, i, skipped) ==
    IF i > Len(groups) THEN exclude_langs
    ELSE LET lang == Title(groups[i])
         IN  IF lang \notin Items(exclude_langs) /\ lang \notin skipped
             THEN AddLangs(Append(exclude_langs, lang), groups, i + 1, skipped)
             ELSE AddLangs(exclude_langs, groups, i + 1, skipped)

\* exclude_langs after the three finditer loops
ExcludeLangs(q_lower) ==
    LET l1 == TitleAll(FindGroups("required", q_lower, 1))
        l2 == AddLangs(l1, FindGroups("no", q_lower, 1), 1, {K_no, K_not})
    IN  AddLangs(l2, FindGroups("without", q_lower, 1), 1, {})

\* loc after the two strip() calls, "" when the pattern did not match
ParsedLocation(q_lower) ==
    LET start == LocationStart(q_lower)
    IN  IF start = 0 THEN <<>>
        ELSE Strip(StripRemoteWord(Strip(LocationAt(q_lower, start).group), 1))

\* 'remote' in q_lower or 'work from home' in q_lower or 'wfh' in q_lower
MentionsRemote(q_lower) ==
    \/ Contains(q_lower, K_remote)
    \/ Contains(q_lower, K_work_from_home)
    \/ Contains(q_lower, K_wfh)

\* role_part after the removal of negations and noise
RolePart(q_lower) ==
    LET start == LocationStart(q_lower)
        before == IF start > 0 THEN Strip(SubSeq(q_lower, 1, start - 1))
                  ELSE Strip(BeforeComma(q_lower))
        no_neg == StripNegations(before, 1)
    IN  Strip(RemoveAll(RemoveAll(no_neg, 1, K_with), 1, K_but))

\* KeywordLoop without the test against the role
RECURSIVE KeywordLoop_IgnoresRole(_, _, _, _, _)
KeywordLoop_IgnoresRole(q_lower, has_role, role, i, keywords) ==
    IF i > Len(KeywordVocabulary) THEN keywords
    ELSE LET kw == KeywordVocabulary[i]
         IN  IF Contains(q_lower, kw)
             THEN KeywordLoop_IgnoresRole(q_lower, has_role, role, i + 1,
                                          Append(keywords, Title(kw)))
             ELSE KeywordLoop_IgnoresRole(q_lower, has_role, role, i + 1,
                                          keywords)

\* the keyword loop over the vocabulary
RECURSIVE KeywordLoop(_, _, _, _, _)
KeywordLoop(q_lower, has_role, role, i, keywords) ==
    IF i > Len(KeywordVocabulary) THEN keywords
    ELSE LET kw == KeywordVocabulary[i]
         IN  IF /\ Contains(q_lower, kw)
                /\ (~ has_role) \/ ~ Contains(Lower(role), kw)
             THEN KeywordLoop(q_lower, has_role, role, i + 1,
                              Append(keywords, Title(kw)))
             ELSE KeywordLoop(q_lower, has_role, role, i + 1, keywords)

\* LocalResult with the role emitted even when role_part is empty
LocalResult_AlwaysRole(q_lower, exclude_langs, loc, role_part) ==
    LET role == Title(role_part)
        keywords == KeywordLoop(q_lower, role_part # <<>>, role, 1, <<>>)
    IN  Entry(exclude_langs # <<>>, "exclude_language", exclude_langs)
        @@ Entry(loc # <<>>, "location", Title(loc))
        @@ Entry(MentionsRemote(q_lower), "remote", TRUE)
        @@ Entry(TRUE, "role", role)
        @@ Entry(keywords # <<>>, "keywords", keywords)

\* result, from exclude_langs, loc and role_part
LocalResult(q_lower, exclude_langs, loc, role_part) ==
    LET role == Title(role_part)
        keywords == KeywordLoop(q_lower, role_part # <<>>, role, 1, <<>>)
    IN  Entry(exclude_langs # <<>>, "exclude_language", exclude_langs)
        @@ Entry(loc # <<>>, "location", Title(loc))
        @@ Entry(MentionsRemote(q_lower), "remote", TRUE)
        @@ Entry(role_part # <<>>, "role", role)
        @@ Entry(keywords # <<>>, "keywords", keywords)

\* local_parse(q)
LocalParse(q) ==
    LocalResult(Lower(q), ExcludeLangs(Lower(q)), ParsedLocation(Lower(q)),
                RolePart(Lower(q)))

(***************************************************************************)
(* openai_parser.py : JobQueryParser                                       *)
(***************************************************************************)
\* Python None, for the values that are either None or an opaque token
None == "None"

\* a decoded JSON value (what json.loads returns), tagged by its type
JNull == [t |-> "null"]
JObject(d) == [t |-> "object", obj |-> d]
JArray(a) == [t |-> "array", arr |-> a]
JNumber(n) == [t |-> "number", num |-> n]
JString(s) == [t |-> "string", str |-> s]
JBool(b) == [t |-> "bool", bool |-> b]

\* the truth value Python gives a decoded value ("if not parsed_filters")
Truthy(j) ==
    CASE j.t = "null" -> FALSE
      [] j.t = "object" -> DOMAIN j.obj # {}
      [] j.t = "array" -> j.arr # <<>>
      [] j.t = "number" -> j.num # 0
      [] j.t = "string" -> j.str # <<>>
      [] j.t = "bool" -> j.bool

\* what the completion call gives parse_query:
\*   "raise"      create(...) raised (transport error, timeout, bad key)
\*   "structured" message.content is already a dict or a list
\*   "text"       message.content is text that json.loads decodes to a value
\*   "undecodable" message.content is something json.loads raises on
\*   "none"       no call was made
NotCalled == [kind |-> "none"]
CallRaises == [kind |-> "raise"]
Undecodable == [kind |-> "undecodable"]
Structured(j) == [kind |-> "structured", raw |-> j]
Text(j) == [kind |-> "text", decoded |-> j]

\* ParsedFilters keeping the raw text when json.loads fails
ParsedFilters_KeepsRawText(has_client, response) ==
    IF ~ has_client THEN JNull
    ELSE IF response.kind = "raise" THEN JNull
    ELSE IF response.kind = "structured" THEN response.raw
    ELSE IF response.kind = "text" THEN response.decoded
    ELSE JString(W_abc)

\* parsed_filters after the "if self.client:" block
ParsedFilters(has_client, response) ==
    IF ~ has_client THEN JNull
    ELSE IF response.kind = "raise" THEN JNull
    ELSE IF response.kind = "structured" THEN response.raw
    ELSE IF response.kind = "text" THEN response.decoded
    ELSE JNull

\* the truth value of merged.get(k)
ValueTruthy(d, k) ==
    /\ k \in DOMAIN d
    /\ IF k \in BoolKeys THEN d[k] = TRUE
       ELSE IF k \in NumKeys THEN d[k] # 0
       ELSE d[k] # <<>>

\* Merge without the "or not merged.get(k)" half of the test
Merge_MissingKeysOnly(parsed, heuristic) ==
    [k \in DOMAIN parsed \cup DOMAIN heuristic |->
        IF k \in DOMAIN heuristic /\ k \notin DOMAIN parsed
        THEN heuristic[k]
        ELSE parsed[k]]

\* merged = dict(parsed_filters); for k, v in heuristic.items(): ...
Merge(parsed, heuristic) ==
    [k \in DOMAIN parsed \cup DOMAIN heuristic |->
        IF k \in DOMAIN heuristic
           /\ (k \notin DOMAIN parsed \/ ~ ValueTruthy(parsed, k))
        THEN heuristic[k]
        ELSE parsed[k]]

\* the exception dict(parsed_filters) raises on a truthy value that is not
\* a dict: a list of numbers, a number and True are not iterables of
\* pairs (TypeError), a str is a sequence of length-1 items (ValueError)
DictError(j) == IF j.t = "string" THEN "ValueError" ELSE "TypeError"

Returns(d) == [raised |-> None, value |-> d]
Raises(exc) == [raised |-> exc, value |-> [k \in {} |-> <<>>]]

\* the end of parse_query, from "if not parsed_filters:" on
MergeOrReturn(parsed_filters, heuristic) ==
    IF ~ Truthy(parsed_filters) THEN Returns(heuristic)
    ELSE IF parsed_filters.t = "object"
    THEN Returns(Merge(parsed_filters.obj, heuristic))
    ELSE Raises(DictError(parsed_filters))

\* JobQueryParser.parse_query
ParseQuery(has_client, response, q) ==
    MergeOrReturn(ParsedFilters(has_client, response), LocalParse(q))

(***************************************************************************)
(* job_sources.py : the source adapters                                    *)
(***************************************************************************)
\* the adapters JobAggregator.__init__ always builds, in list order
BaseSources == <<"Greenhouse", "Lever", "Workable">>

\* the company lists of the three board adapters
Boards(source) ==
    CASE source = "Greenhouse" ->
           <<B_airbnb, B_doordash, B_gitlab, B_grammarly, B_robinhood>>
      [] source = "Lever" ->
           <<B_netflix, B_spotify, B_lyft, B_databricks, B_stripe>>
      [] source = "Workable" -> <<B_signifyd, B_omnipresent, B_ometria>>
      [] OTHER -> <<>>

\* the tag an adapter puts in front of its ids
IdPrefix(source) ==
    CASE source = "Greenhouse" -> P_gh
      [] source = "Lever" -> P_lever
      [] source = "Workable" -> P_workable
      [] OTHER -> P_google

\* the "source" field an adapter writes
SourceText(source) ==
    CASE source = "Greenhouse" -> N_Greenhouse
      [] source = "Lever" -> N_Lever
      [] source = "Workable" -> N_Workable
      [] OTHER -> N_GoogleJobs

\* A returned item is a dict; the model names its fields by the posting
\* field they feed:
\*   id          Greenhouse id, Lever id, Workable shortcode, Google job_id
\*   title       Greenhouse title, Lever text, Workable title
\*   location    Greenhouse location (an object with a name), Lever
\*               categories (an object with a location), Workable city
\*   country     Workable country
\*   url         absolute_url, hostedUrl, url, share_url
\*   description content, description
\*   company     Google company_name
\* A location of Null is a JSON null where the adapter expects an object
\* (Greenhouse, Lever) or a str (Workable).
Null == <<"null">>

\* str(job.get('id')) inside the f-string: "None" for a missing id
IdText(item) == Get(item, "id", K_None)

\* the expression of the "location" field raises on this item:
\* job.get("location", {}).get(...) on None (AttributeError), and for
\* Workable None += ", country" (TypeError)
MappingRaises(source, item) ==
    /\ "location" \in DOMAIN item
    /\ item["location"] = Null
    /\ source \in {"Greenhouse", "Lever"} \/ Get(item, "country", <<>>) # <<>>

\* the "location" field of the posting built from an item
LocationText(source, item) ==
    IF source = "Workable" /\ Get(item, "country", <<>>) # <<>>
    THEN Get(item, "location", <<>>) \o <<",", " ">> \o item["country"]
    ELSE Get(item, "location", <<>>)

\* the dict appended to jobs for one item of a board
BoardPosting(source, company, item) ==
    [id |-> IdPrefix(source) \o company \o <<"_">> \o IdText(item),
     title |-> Get(item, "title", <<>>),
     company |-> Title(company),
     location |-> LocationText(source, item),
     url |-> Get(item, "url", <<>>),
     source |-> SourceText(source),
     description |-> Get(item, "description", <<>>)]

\* the dict appended to jobs for one item of jobs_results
GooglePosting(item) ==
    [id |-> P_google \o Get(item, "id", <<>>),
     title |-> Get(item, "title", <<>>),
     company |-> Get(item, "company", <<>>),
     location |-> Get(item, "location", <<>>),
     url |-> Get(item, "url", <<>>),
     source |-> N_GoogleJobs,
     description |-> Get(item, "description", <<>>)]

\* MapItems with nothing kept of a board whose mapping raises
MapItems_AllOrNothing(source, company, items, i) ==
    IF \E k \in i..Len(items) : MappingRaises(source, items[k]) THEN <<>>
    ELSE [k \in 1..(Len(items) - i + 1) |->
             BoardPosting(source, company, items[k + i - 1])]

\* "for job in company_jobs: jobs.append({...})": the postings appended
\* before the loop ends or an item raises
RECURSIVE MapItems(_, _, _, _)
MapItems(source, company, items, i) ==
    IF i > Len(items) \/ MappingRaises(source, items[i]) THEN <<>>
    ELSE <<BoardPosting(source, company, items[i])>>
         \o MapItems(source, company, items, i + 1)

\* what one board answers to requests.get:
\*   "raise"   requests.get raised (timeout, connection error)
\*   "http"    a response with a status code; with status 200 its body is
\*             either the expected JSON document with the items, or
\*             something response.json() / data.get raises on
GetRaises == [kind |-> "raise", status |-> 0, json |-> FALSE, items |-> <<>>]
HttpError(code) ==
    [kind |-> "http", status |-> code, json |-> FALSE, items |-> <<>>]
BadBody == [kind |-> "http", status |-> 200, json |-> FALSE, items |-> <<>>]
Listing(items) ==
    [kind |-> "http", status |-> 200, json |-> TRUE, items |-> items]

\* the body of the try block raises on this answer: requests.get raised,
\* response.json() / data.get raised, or the mapping of an item raised
BoardRaises(source, resp) ==
    \/ resp.kind = "raise"
    \/ /\ resp.kind = "http" /\ resp.status = 200
       /\ \/ ~ resp.json
          \/ \E i \in 1..Len(resp.items) : MappingRaises(source, resp.items[i])

\* the postings one iteration of the company loop appends to jobs
BoardJobs(source, company, resp) ==
    IF resp.kind = "http" /\ resp.status = 200 /\ resp.json
    THEN MapItems(source, company, resp.items, 1)
    ELSE <<>>

\* what GoogleSearch(params).get_dict() gives:
\*   "raise"    the search raised
\*   "results"  a dict, with or without the key jobs_results
SearchRaises == [kind |-> "raise", has_jobs |-> FALSE, items |-> <<>>]
NoJobsResults == [kind |-> "results", has_jobs |-> FALSE, items |-> <<>>]
JobsResults(items) == [kind |-> "results", has_jobs |-> TRUE, items |-> items]

\* the "url" expression raises on this item: the default
\* job.get("related_links", [{}])[0] is evaluated even when share_url is
\* there, and an empty related_links list has no element 0 (IndexError)
GoogleMappingRaises(item) ==
    "related_links" \in DOMAIN item /\ item["related_links"] = <<>>

\* job.get("share_url", job.get("related_links", [{}])[0].get("link", ""))
GoogleUrl(item) ==
    IF "url" \in DOMAIN item THEN item["url"]
    ELSE IF "related_links" \in DOMAIN item THEN item["related_links"][1]
    ELSE <<>>

\* "for job in results['jobs_results']: jobs.append({...})"
RECURSIVE MapGoogleItems(_, _)
MapGoogleItems(items, i) ==
    IF i > Len(items) \/ GoogleMappingRaises(items[i]) THEN <<>>
    ELSE <<[GooglePosting(items[i]) EXCEPT !.url = GoogleUrl(items[i])]>>
         \o MapGoogleItems(items, i + 1)

\* GoogleJobsSource.search_jobs of an enabled source: every exception is
\* caught and the postings built so far are returned
GoogleJobs(resp) ==
    IF resp.kind = "results" /\ resp.has_jobs
    THEN MapGoogleItems(resp.items, 1)
    ELSE <<>>

\* bool(self.api_key): None and "" are false
Enabled(key) == key # None /\ key # ""

\* GoogleJobsSource.__init__: api_key or os.getenv("SERPAPI_API_KEY")
SerpApiKey(key_arg, env_key) == IF Enabled(key_arg) THEN key_arg ELSE env_key

\* "jobs"
W_jobs == <<"j","o","b","s">>

\* filters.get(k) is true: the key is there with a non-empty value
Given(fs, k) == k \in DOMAIN fs /\ fs[k] # <<>>

\* GoogleJobsSource.search_jobs: query = " ".join(query_parts)
GoogleQuery(fs) ==
    JoinSpace(<<IF Given(fs, "role") THEN fs["role"] ELSE W_jobs>>
              \o (IF Given(fs, "location")
                  THEN <<<<"i", "n", " ">> \o fs["location"]>> ELSE <<>>))

\* GoogleJobsSource.search_jobs: params
GoogleParams(fs, key) ==
    [engine |-> "google_jobs", q |-> GoogleQuery(fs), api_key |-> key,
     hl |-> "en"]
    @@ (IF Given(fs, "location")
        THEN [k \in {"location"} |-> fs["location"]]
        ELSE [k \in {} |-> <<>>])

\* JobAggregator.__init__: the Google source joins the list only when it
\* is enabled, that is when a SerpApi key was found
SourceList(serp_key) ==
    IF Enabled(serp_key) THEN Append(BaseSources, "Google Jobs")
    ELSE BaseSources

(***************************************************************************)
(* The postings and filter dictionaries the model draws its inputs from.   *)
(***************************************************************************)
JobRegisteredNurse ==
    [title |-> T_RegisteredNurse, location |-> L_AmsterdamNL,
     description |-> D_NoDutchRequired]

JobEngineerAmsterdam ==
    [title |-> T_SoftwareEngineer, company |-> C_TechCo,
     location |-> L_Amsterdam, url |-> U_url1]

JobEngineerRotterdam ==
    [title |-> T_SoftwareEngineer, company |-> C_TechCo,
     location |-> L_Rotterdam, url |-> U_url2]

JobEngineerRemote ==
    [title |-> T_SoftwareEngineer2, company |-> C_TechCo2,
     location |-> L_Remote, description |-> D_PythonWfh]

JobNurseUtrecht ==
    [title |-> T_Nurse, company |-> C_Hospital, location |-> L_Utrecht,
     description |-> D_FluentDutch]

JobEnglishOnly ==
    [title |-> T_Job2, company |-> C_Co2, location |-> L_NL,
     description |-> D_EnglishOnly]

JobDutchSpeaker ==
    [title |-> T_DutchSpeaker, company |-> C_Co2, location |-> L_Utrecht,
     description |-> D_RemoteEnglish]

JobPool == {JobRegisteredNurse, JobEngineerAmsterdam, JobEngineerRotterdam,
            JobEngineerRemote, JobNurseUtrecht, JobEnglishOnly,
            JobDutchSpeaker}

JobSeqs == UNION {[1..n -> JobPool] : n \in 0..MaxJobs}

\* the dict {} : no key at all
EmptyFilter == [k \in {} |-> <<>>]

FilterNurseNoDutch == [role |-> W_nurse, exclude_language |-> <<W_Dutch>>]

FilterPool ==
    { EmptyFilter,
      FilterNurseNoDutch,
      [role |-> W_engineer],
      [location |-> L_Utrecht],
      [exclude_language |-> <<W_Dutch>>],
      [language_required |-> <<W_English>>],
      [keywords |-> <<W_Python>>],
      [keywords |-> <<W_engineer>>],
      [remote |-> TRUE],
      [role |-> <<>>, keywords |-> <<>>, remote |-> FALSE],
      [role |-> W_SeniorNurse, location |-> W_amsterdam],
      [role |-> W_Space],
      [language_required |-> <<W_English, W_Python>>,
       keywords |-> <<W_Remote>>],
      [exclude_language |-> <<W_German, W_Dutch>>, remote |-> TRUE] }

\* longest item list a board or the job search answers with
MaxItems == 2

\* most adapters that raise in one run of search_all_sources
MaxFaults == 1

ItemEngineer ==
    [id |-> I_1, title |-> T_SoftwareEngineer, location |-> L_Amsterdam,
     url |-> U_url1, description |-> D_PythonWfh]

ItemEngineerNoId ==
    [title |-> T_SoftwareEngineer2, location |-> L_Utrecht,
     country |-> L_Netherlands, description |-> D_FluentDutch]

ItemNullLocation ==
    [id |-> I_2, title |-> T_Nurse, location |-> Null,
     country |-> L_Netherlands]

ItemPool == {ItemEngineer, ItemEngineerNoId, ItemNullLocation}

ItemSeqs == UNION {[1..n -> ItemPool] : n \in 0..MaxItems}

\* an item whose title is a JSON null
ItemNullTitle == [id |-> I_2, title |-> Null, location |-> L_Utrecht]

\* item lists with a null field
NullItemSeqs == {<<ItemNullTitle>>, <<ItemEngineer, ItemNullTitle>>}

\* the boards that answer with a listing, and the item lists each may
\* send, in a whole run and in a run of search_all_sources alone; every
\* board can fail in each of the three ways
SearchAnswering == [c \in {B_spotify} |-> ItemSeqs]
SourceAnswering ==
    [c \in {B_airbnb, B_signifyd} |-> ItemSeqs \cup NullItemSeqs]

BoardResponses(company, answering) ==
    {GetRaises, HttpError(404), BadBody}
    \cup (IF company \in DOMAIN answering
          THEN {Listing(items) : items \in answering[company]} ELSE {})

GoogleItemEngineer ==
    [id |-> I_1, title |-> T_SoftwareEngineer, company |-> C_Spotify,
     location |-> L_Remote, url |-> U_url2, description |-> D_RemoteEnglish]

GoogleItemNoLinks ==
    [id |-> I_2, title |-> T_Nurse, company |-> C_Hospital,
     location |-> L_Utrecht, url |-> U_url1, related_links |-> <<>>]

GoogleItemSeqs ==
    UNION {[1..n -> {GoogleItemEngineer, GoogleItemNoLinks}] : n \in 0..MaxItems}

GoogleResponses ==
    {SearchRaises, NoJobsResults}
    \cup {JobsResults(items) : items \in GoogleItemSeqs}

\* the filter dicts the completion may hold
AiLocationUtrecht == [location |-> W_Utrecht]

AiObjects ==
    { EmptyFilter,
      AiLocationUtrecht,
      [role |-> W_nurse, location |-> W_Utrecht,
       exclude_language |-> <<W_Dutch>>],
      [role |-> <<>>, keywords |-> <<>>, remote |-> FALSE, salary_min |-> 0],
      [remote |-> TRUE, salary_min |-> 3000, exclude_language |-> <<>>] }

AiResponses ==
    {CallRaises, Undecodable}
    \cup {Text(JObject(d)) : d \in AiObjects}
    \cup {Structured(JObject(AiLocationUtrecht)), Structured(JArray(<<>>)),
          Text(JArray(<<1, 2>>)), Text(JArray(<<>>)), Text(JNumber(5)),
          Text(JNumber(0)), Text(JString(W_abc)), Text(JString(<<>>)),
          Text(JBool(TRUE)), Text(JBool(FALSE)), Text(JNull)}

Queries == {<<>>, Q_NurseUtrecht, Q_NurseAmsterdam, Q_EngineerRemote,
            Q_SeniorNoDutch}

\* the queries and completions of the runs that go through every stage
SearchQueries == {Q_EngineerRemote, Q_SeniorNoDutch}
SearchResponses == {CallRaises, Text(JObject(AiLocationUtrecht)),
                    Text(JArray(<<1, 2>>))}

(***************************************************************************)
(* State.                                                                  *)
(***************************************************************************)
VARIABLES
    pc,             \* where the run of agent.py main / AIJobFinder.search is
    raised,         \* the exception that ended the run, None when none did
    api_key,        \* JobQueryParser.api_key
    client,         \* JobQueryParser.client is not None
    query,          \* the query handed to parse_query
    ai_response,    \* what the completion call gave for it
    sources,        \* JobAggregator.sources
    src_idx,        \* search_all_sources: position in self.sources
    board_idx,      \* search_jobs: position in the company list
    requested,      \* search_jobs: the boards requests.get was called for
    paused,         \* search_jobs: time.sleep ran after the last requests.get
    response,       \* search_jobs: the outcome of the last requests.get
    jobs,           \* search_jobs: the adapter's local list
    calls,          \* the adapters search_all_sources has invoked so far
    faults,         \* the adapters whose search_jobs raised
    filters,        \* agent.py: filters
    all_jobs,       \* agent.py: all_jobs
    filtered_jobs,  \* agent.py: filtered_jobs
    unique_jobs,    \* agent.py: unique_jobs, the returned list
    text,           \* _normalize_text: the argument
    normalized,     \* _normalize_text: the returned text
    cards,          \* linkedin_agent.py: the job cards the page shows
    raw_results,    \* linkedin_agent.py run: raw_results
    last_results,   \* linkedin_agent.py: LinkedInJobSearchAgent._last_results
    opened_urls,    \* linkedin_agent.py: the params of the URLs run opened
    serp_api_key,   \* GoogleJobsSource.api_key
    enabled,        \* GoogleJobsSource.enabled
    searches,       \* the params of the GoogleSearch calls made so far
    now,            \* client.py: what time.monotonic() gives
    start_time,     \* wait_for_completion: start_time
    timeout,        \* wait_for_completion: the timeout argument
    poll_interval,  \* wait_for_completion: the poll_interval argument
    polls,          \* wait_for_completion: the session.get calls made
    poll,           \* wait_for_completion: what the last session.get gave
    data            \* wait_for_completion: the returned session data

parserVars == <<api_key, client, query, ai_response>>
sourceVars == <<sources, src_idx, board_idx, requested, paused, response, jobs,
                calls, faults>>
filterVars == <<filters, all_jobs, filtered_jobs, unique_jobs>>
textVars == <<text, normalized>>
linkedinVars == <<cards, raw_results, last_results, opened_urls>>
googleVars == <<serp_api_key, enabled, searches>>
cuaVars == <<now, start_time, timeout, poll_interval, polls, poll, data>>
vars == <<pc, raised, parserVars, sourceVars, filterVars, textVars,
          linkedinVars, googleVars, cuaVars>>

\* no session.get made yet
NoPoll == [ok |-> FALSE, status |-> "none"]

\* no requests.get made yet in this search_jobs call
NoResponse == [kind |-> "none", status |-> 0, json |-> FALSE, items |-> <<>>]

(***************************************************************************)
(* agent.py : AIJobFinder.__init__                                         *)
(***************************************************************************)
\* JobQueryParser.__init__ and JobAggregator.__init__.  key_arg is the
\* api_key argument, env_key and serp_key are OPENAI_API_KEY and
\* SERPAPI_API_KEY of the environment, client_ok tells whether
\* OpenAI(api_key=...) succeeds.
Construct(key_args, env_keys) ==
    /\ pc = "new"
    /\ \E key_arg \in key_args, env_key \in env_keys,
          serp_key \in {None, "serp-key"}, client_ok \in BOOLEAN :
          LET key == IF key_arg # None THEN key_arg ELSE env_key
          IN  /\ api_key' = key
              /\ client' = (key # None /\ client_ok)
              /\ sources' = SourceList(serp_key)
              /\ serp_api_key' = serp_key
              /\ enabled' = Enabled(serp_key)
    /\ pc' = "constructed"
    /\ UNCHANGED <<textVars, linkedinVars, searches, raised, query,
                   ai_response, src_idx, board_idx, requested, paused,
                   response, jobs, calls, faults, filterVars, cuaVars>>

(***************************************************************************)
(* agent.py : AIJobFinder.search                                           *)
(***************************************************************************)
\* step 1: filters = self.parser.parse_query(query); an exception leaves
\* search and ends the run in main's handler.  The completion call is
\* made only when there is a client.
CallParseQuery(queries, responses) ==
    /\ pc = "constructed"
    /\ \E q \in queries, r \in (IF client THEN responses ELSE {NotCalled}) :
          \E result \in {ParseQuery(client, r, q)} :
              /\ query' = q
              /\ ai_response' = r
              /\ raised' = result.raised
              /\ filters' = result.value
              /\ pc' = IF result.raised = None THEN "fetching" ELSE "failed"
              /\ src_idx' = IF result.raised = None THEN 1 ELSE 0
    /\ UNCHANGED <<textVars, linkedinVars, googleVars, api_key, client,
                   sources, board_idx, requested, paused, response, jobs,
                   calls, faults, all_jobs, filtered_jobs, unique_jobs,
                   cuaVars>>

\* the source search_all_sources is at
Source == sources[src_idx]

\* the loop of search_all_sources moves on to the next source, or returns
NextSource ==
    /\ src_idx' = src_idx + 1
    /\ pc' = IF src_idx + 1 > Len(sources) THEN "fetched" ELSE "fetching"
    /\ calls' = Append(calls, Source)
    /\ board_idx' = 1
    /\ requested' = <<>>
    /\ paused' = FALSE
    /\ response' = NoResponse
    /\ jobs' = <<>>

\* FetchBoard with an exception ending the company loop
FetchBoard_StopsOnError(answering) ==
    /\ pc = "fetching"
    /\ Source \in Items(BaseSources)
    /\ board_idx <= Len(Boards(Source))
    /\ \E resp \in BoardResponses(Boards(Source)[board_idx], answering) :
          /\ response' = resp
          /\ jobs' = jobs \o BoardJobs(Source, Boards(Source)[board_idx], resp)
          /\ paused' = ~ BoardRaises(Source, resp)
          /\ board_idx' = IF BoardRaises(Source, resp)
                          THEN Len(Boards(Source)) + 1 ELSE board_idx + 1
    /\ requested' = Append(requested, Boards(Source)[board_idx])
    /\ UNCHANGED <<textVars, linkedinVars, googleVars, pc, raised, parserVars,
                   sources, src_idx, calls, faults, filterVars, cuaVars>>

\* one iteration of the company loop of a board adapter: requests.get,
\* the mapping of the items, then time.sleep(0.5) as the last statement
\* of the try block, which "except Exception ... continue" skips
FetchBoard(answering) ==
    /\ pc = "fetching"
    /\ Source \in Items(BaseSources)
    /\ board_idx <= Len(Boards(Source))
    /\ \E resp \in BoardResponses(Boards(Source)[board_idx], answering) :
          /\ response' = resp
          /\ jobs' = jobs \o BoardJobs(Source, Boards(Source)[board_idx], resp)
          /\ paused' = ~ BoardRaises(Source, resp)
    /\ requested' = Append(requested, Boards(Source)[board_idx])
    /\ board_idx' = board_idx + 1
    /\ UNCHANGED <<textVars, linkedinVars, googleVars, pc, raised, parserVars,
                   sources, src_idx, calls, faults, filterVars, cuaVars>>

\* ReturnJobs with the adapter's postings put in front of all_jobs
ReturnJobs_Prepends ==
    /\ pc = "fetching"
    /\ Source \in Items(BaseSources)
    /\ board_idx > Len(Boards(Source))
    /\ all_jobs' = jobs \o all_jobs
    /\ NextSource
    /\ UNCHANGED <<textVars, linkedinVars, googleVars, raised, parserVars,
                   sources, faults, filters, filtered_jobs, unique_jobs,
                   cuaVars>>

\* a board adapter returns jobs: all_jobs.extend(jobs)
ReturnJobs ==
    /\ pc = "fetching"
    /\ Source \in Items(BaseSources)
    /\ board_idx > Len(Boards(Source))
    /\ all_jobs' = all_jobs \o jobs
    /\ NextSource
    /\ UNCHANGED <<textVars, linkedinVars, googleVars, raised, parserVars,
                   sources, faults, filters, filtered_jobs, unique_jobs,
                   cuaVars>>

\* the Google source searches and returns: all_jobs.extend(jobs)
SearchGoogle ==
    /\ pc = "fetching"
    /\ Source = "Google Jobs"
    /\ \E resp \in GoogleResponses : all_jobs' = all_jobs \o GoogleJobs(resp)
    /\ searches' = Append(searches, GoogleParams(filters, serp_api_key))
    /\ NextSource
    /\ UNCHANGED <<textVars, linkedinVars, serp_api_key, enabled, raised,
                   parserVars, sources, faults, filters, filtered_jobs,
                   unique_jobs, cuaVars>>

\* AdapterRaises without the try/except around search_jobs
AdapterRaises_Propagates ==
    /\ pc = "fetching"
    /\ Cardinality(faults) < MaxFaults
    /\ faults' = faults \cup {Source}
    /\ raised' = "Exception"
    /\ pc' = "failed"
    /\ UNCHANGED <<textVars, linkedinVars, googleVars, parserVars, sources,
                   src_idx, board_idx, requested, paused, response, jobs,
                   calls, filterVars, cuaVars>>

\* source.search_jobs(filters) raises: "except Exception ... continue"
AdapterRaises ==
    /\ pc = "fetching"
    /\ Cardinality(faults) < MaxFaults
    /\ faults' = faults \cup {Source}
    /\ NextSource
    /\ UNCHANGED <<textVars, linkedinVars, googleVars, raised, parserVars,
                   sources, filterVars, cuaVars>>

\* FilterStep with the duplicates removed before the filter is applied
FilterStep_DedupFirst ==
    /\ pc = "fetched"
    /\ filtered_jobs' = FilterJobs(DeduplicateJobs(all_jobs), filters)
    /\ pc' = "filtered"
    /\ UNCHANGED <<textVars, linkedinVars, googleVars, raised, parserVars,
                   sourceVars, filters, all_jobs, unique_jobs, cuaVars>>

\* FilterStep with the role taken out of filters once it was applied
FilterStep_ConsumesRole ==
    /\ pc = "fetched"
    /\ filtered_jobs' = FilterJobs(all_jobs, filters)
    /\ filters' = [k \in DOMAIN filters \ {"role"} |-> filters[k]]
    /\ pc' = "filtered"
    /\ UNCHANGED <<textVars, linkedinVars, googleVars, raised, parserVars,
                   sourceVars, all_jobs, unique_jobs, cuaVars>>

\* step 3: filtered_jobs = self.filter.filter_jobs(all_jobs, filters)
FilterStep ==
    /\ pc = "fetched"
    /\ filtered_jobs' = FilterJobs(all_jobs, filters)
    /\ pc' = "filtered"
    /\ UNCHANGED <<textVars, linkedinVars, googleVars, raised, parserVars,
                   sourceVars, filters, all_jobs, unique_jobs, cuaVars>>

\* step 4: unique_jobs = self.filter.deduplicate_jobs(filtered_jobs)
DedupStep ==
    /\ pc = "filtered"
    /\ unique_jobs' = DeduplicateJobs(filtered_jobs)
    /\ pc' = "done"
    /\ UNCHANGED <<textVars, linkedinVars, googleVars, raised, parserVars,
                   sourceVars, filters, all_jobs, filtered_jobs, cuaVars>>

Init ==
    /\ pc = "new"
    /\ raised = None
    /\ api_key = None
    /\ client = FALSE
    /\ query = <<>>
    /\ ai_response = NotCalled
    /\ sources = <<>>
    /\ src_idx = 0
    /\ board_idx = 1
    /\ requested = <<>>
    /\ paused = FALSE
    /\ response = NoResponse
    /\ jobs = <<>>
    /\ calls = <<>>
    /\ faults = {}
    /\ filters = EmptyFilter
    /\ all_jobs = <<>>
    /\ filtered_jobs = <<>>
    /\ unique_jobs = <<>>
    /\ text = <<>>
    /\ normalized = <<>>
    /\ cards = <<>>
    /\ raw_results = <<>>
    /\ last_results = <<>>
    /\ opened_urls = <<>>
    /\ serp_api_key = None
    /\ enabled = FALSE
    /\ searches = <<>>
    /\ now = 0
    /\ start_time = 0
    /\ timeout = 0
    /\ poll_interval = 0
    /\ polls = 0
    /\ poll = NoPoll
    /\ data = NoPoll

Next ==
    \/ Construct({None, "test-key"}, {None})
    \/ CallParseQuery(SearchQueries, SearchResponses)
    \/ FetchBoard(SearchAnswering)
    \/ ReturnJobs
    \/ SearchGoogle
    \/ AdapterRaises
    \/ FilterStep
    \/ DedupStep

\* a whole run: construction, parse_query, the four stages of search
Spec == Init /\ [][Next]_vars

(***************************************************************************)
(* JobQueryParser on its own: construction, then parse_query on any query  *)
(* and completion of the pools.                                            *)
(***************************************************************************)
ParserNext ==
    \/ Construct({None, "test-key"}, {None, "env-key"})
    \/ CallParseQuery(Queries, AiResponses)

ParserSpec == Init /\ [][ParserNext]_vars

(***************************************************************************)
(* JobAggregator.search_all_sources on its own, with and without the       *)
(* Google source in the list.                                              *)
(***************************************************************************)
SourceInit ==
    /\ pc = "fetching"
    /\ raised = None
    /\ api_key = None
    /\ client = FALSE
    /\ query = <<>>
    /\ ai_response = NotCalled
    /\ serp_api_key \in {None, "serp-key"}
    /\ enabled = Enabled(serp_api_key)
    /\ sources = SourceList(serp_api_key)
    /\ src_idx = 1
    /\ board_idx = 1
    /\ requested = <<>>
    /\ paused = FALSE
    /\ response = NoResponse
    /\ jobs = <<>>
    /\ calls = <<>>
    /\ faults = {}
    /\ filters \in {EmptyFilter, [role |-> W_engineer, location |-> L_Utrecht]}
    /\ all_jobs = <<>>
    /\ filtered_jobs = <<>>
    /\ unique_jobs = <<>>
    /\ text = <<>>
    /\ normalized = <<>>
    /\ cards = <<>>
    /\ raw_results = <<>>
    /\ last_results = <<>>
    /\ opened_urls = <<>>
    /\ searches = <<>>
    /\ now = 0
    /\ start_time = 0
    /\ timeout = 0
    /\ poll_interval = 0
    /\ polls = 0
    /\ poll = NoPoll
    /\ data = NoPoll

SourceNext ==
    \/ FetchBoard(SourceAnswering)
    \/ ReturnJobs
    \/ SearchGoogle
    \/ AdapterRaises

SourceSpec == SourceInit /\ [][SourceNext]_vars

(***************************************************************************)
(* JobFilter called on its own: filter_jobs on any posting list and filter *)
(* dict of the pools, then deduplicate_jobs on what it returned.           *)
(***************************************************************************)
FilterInit ==
    /\ pc = "fetched"
    /\ raised = None
    /\ api_key = None
    /\ client = FALSE
    /\ query = <<>>
    /\ ai_response = NotCalled
    /\ sources = <<>>
    /\ src_idx = 0
    /\ board_idx = 1
    /\ requested = <<>>
    /\ paused = FALSE
    /\ response = NoResponse
    /\ jobs = <<>>
    /\ calls = <<>>
    /\ faults = {}
    /\ filters \in FilterPool
    /\ all_jobs \in JobSeqs
    /\ filtered_jobs = <<>>
    /\ unique_jobs = <<>>
    /\ text = <<>>
    /\ normalized = <<>>
    /\ cards = <<>>
    /\ raw_results = <<>>
    /\ last_results = <<>>
    /\ opened_urls = <<>>
    /\ serp_api_key = None
    /\ enabled = FALSE
    /\ searches = <<>>
    /\ now = 0
    /\ start_time = 0
    /\ timeout = 0
    /\ poll_interval = 0
    /\ polls = 0
    /\ poll = NoPoll
    /\ data = NoPoll

FilterNext == FilterStep \/ DedupStep

FilterSpec == FilterInit /\ [][FilterNext]_vars

(***************************************************************************)
(* JobFilter._normalize_text called on its own, as test_normalize_text     *)
(* does, on every text of at most MaxText characters of TextChars and on   *)
(* the texts of the test.                                                  *)
(***************************************************************************)
MaxText == 3

TextChars == {"A", "a", "1", " ", "\t", "!"}

Texts ==
    UNION {[1..n -> TextChars] : n \in 0..MaxText}
    \cup {T_SoftwareEngineer, T_SoftwareEngineer2, C_TechCo2}

NormalizeInit ==
    /\ pc = "text"
    /\ raised = None
    /\ api_key = None
    /\ client = FALSE
    /\ query = <<>>
    /\ ai_response = NotCalled
    /\ sources = <<>>
    /\ src_idx = 0
    /\ board_idx = 1
    /\ requested = <<>>
    /\ paused = FALSE
    /\ response = NoResponse
    /\ jobs = <<>>
    /\ calls = <<>>
    /\ faults = {}
    /\ filters = EmptyFilter
    /\ all_jobs = <<>>
    /\ filtered_jobs = <<>>
    /\ unique_jobs = <<>>
    /\ text \in Texts
    /\ normalized = <<>>
    /\ cards = <<>>
    /\ raw_results = <<>>
    /\ last_results = <<>>
    /\ opened_urls = <<>>
    /\ serp_api_key = None
    /\ enabled = FALSE
    /\ searches = <<>>
    /\ now = 0
    /\ start_time = 0
    /\ timeout = 0
    /\ poll_interval = 0
    /\ polls = 0
    /\ poll = NoPoll
    /\ data = NoPoll

\* norm = JobFilter._normalize_text(text)
NormalizeStep ==
    /\ pc = "text"
    /\ normalized' = NormalizeText(text)
    /\ pc' = "normalized"
    /\ UNCHANGED <<googleVars, raised, parserVars, sourceVars, filterVars,
                   text, linkedinVars, cuaVars>>

NormalizeNext == NormalizeStep

NormalizeSpec == NormalizeInit /\ [][NormalizeNext]_vars

\* "Latino"
W_Latino == <<"L","a","t","i","n","o">>
\* "in"
W_in == <<"i","n">>
\* "nurse,"
W_nurseComma == <<"n","u","r","s","e",",">>
\* "NO"
W_NO == <<"N","O">>
\* "DUTCH"
W_DUTCH == <<"D","U","T","C","H">>
\* "NECESSARY"
W_NECESSARY == <<"N","E","C","E","S","S","A","R","Y">>

(***************************************************************************)
(* parse_query of a parser built without an API key: the filters are what  *)
(* local_parse gives.  The queries are those of the pool, every query of   *)
(* at most MaxWords words of QueryWords joined by single spaces, and every *)
(* query of at most MaxText characters of QueryChars.                      *)
(***************************************************************************)
MaxWords == 4

QueryWords == {K_no, W_Latino, W_Dutch, K_required, W_in, W_nurseComma}

QueryChars == {"n", "o", "i", " ", ","}

\* "no Dutch required, no Dutch needed"
Q_NoDutchTwice == <<"n","o"," ","D","u","t","c","h"," ","r","e","q","u","i",
    "r","e","d",","," ","n","o"," ","D","u","t","c","h"," ","n","e","e","d",
    "e","d">>
\* "butcher"
W_butcher == <<"b","u","t","c","h","e","r">>
\* "blacksmith"
W_blacksmith == <<"b","l","a","c","k","s","m","i","t","h">>

HeuristicQueries ==
    Queries
    \cup {JoinSpace(ws) : ws \in UNION {[1..n -> QueryWords] : n \in 0..MaxWords}}
    \cup UNION {[1..n -> QueryChars] : n \in 0..MaxText}
    \cup {JoinSpace(<<W_nurseComma, W_NO, W_DUTCH, W_NECESSARY>>),
          JoinSpace(<<K_no, W_Dutch, K_needed>>),
          JoinSpace(<<K_with, W_Space, K_but>>), K_remote,
          Q_NoDutchTwice, JoinSpace(<<K_no, K_not>>), W_butcher,
          W_blacksmith, JoinSpace(<<W_butcher, K_in, W_Utrecht>>)}

HeuristicInit ==
    /\ pc = "constructed"
    /\ raised = None
    /\ api_key = None
    /\ client = FALSE
    /\ query = <<>>
    /\ ai_response = NotCalled
    /\ sources = BaseSources
    /\ src_idx = 0
    /\ board_idx = 1
    /\ requested = <<>>
    /\ paused = FALSE
    /\ response = NoResponse
    /\ jobs = <<>>
    /\ calls = <<>>
    /\ faults = {}
    /\ filters = EmptyFilter
    /\ all_jobs = <<>>
    /\ filtered_jobs = <<>>
    /\ unique_jobs = <<>>
    /\ text = <<>>
    /\ normalized = <<>>
    /\ cards = <<>>
    /\ raw_results = <<>>
    /\ last_results = <<>>
    /\ opened_urls = <<>>
    /\ serp_api_key = None
    /\ enabled = FALSE
    /\ searches = <<>>
    /\ now = 0
    /\ start_time = 0
    /\ timeout = 0
    /\ poll_interval = 0
    /\ polls = 0
    /\ poll = NoPoll
    /\ data = NoPoll

HeuristicNext == CallParseQuery(HeuristicQueries, {NotCalled})

HeuristicSpec == HeuristicInit /\ [][HeuristicNext]_vars

(***************************************************************************)
(* job_sources.py : GoogleJobsSource built and searched on its own, as     *)
(* test_google_jobs_without_api_key does, and JobAggregator.__init__ with  *)
(* either value of use_google_jobs.                                        *)
(***************************************************************************)
GoogleFilters ==
    {EmptyFilter, [role |-> W_engineer], [location |-> L_Utrecht],
     [role |-> W_engineer, location |-> L_Utrecht], [role |-> <<>>]}

\* the api_key argument
KeyArgs == {None, "", "serp-key"}

\* SERPAPI_API_KEY of the environment
EnvKeys == {None, "", "env-serp-key"}

GoogleInit ==
    /\ pc = "google_new"
    /\ raised = None
    /\ api_key = None
    /\ client = FALSE
    /\ query = <<>>
    /\ ai_response = NotCalled
    /\ sources = <<>>
    /\ src_idx = 0
    /\ board_idx = 1
    /\ requested = <<>>
    /\ paused = FALSE
    /\ response = NoResponse
    /\ jobs = <<>>
    /\ calls = <<>>
    /\ faults = {}
    /\ filters \in GoogleFilters
    /\ all_jobs = <<>>
    /\ filtered_jobs = <<>>
    /\ unique_jobs = <<>>
    /\ text = <<>>
    /\ normalized = <<>>
    /\ cards = <<>>
    /\ raw_results = <<>>
    /\ last_results = <<>>
    /\ opened_urls = <<>>
    /\ serp_api_key = None
    /\ enabled = FALSE
    /\ searches = <<>>
    /\ now = 0
    /\ start_time = 0
    /\ timeout = 0
    /\ poll_interval = 0
    /\ polls = 0
    /\ poll = NoPoll
    /\ data = NoPoll

\* GoogleJobsSource.__init__(api_key)
GoogleConstruct ==
    /\ pc = "google_new"
    /\ \E key_arg \in KeyArgs, env_key \in EnvKeys :
          /\ serp_api_key' = SerpApiKey(key_arg, env_key)
          /\ enabled' = Enabled(SerpApiKey(key_arg, env_key))
    /\ pc' = "google_ready"
    /\ UNCHANGED <<raised, parserVars, sourceVars, filterVars, textVars,
                   linkedinVars, searches, cuaVars>>

\* JobAggregator.__init__(use_google_jobs): GoogleJobsSource() is built
\* with no argument, and only when use_google_jobs is true
AggregatorConstruct ==
    /\ pc = "google_new"
    /\ \E use_google_jobs \in BOOLEAN, env_key \in EnvKeys :
          IF use_google_jobs
          THEN /\ serp_api_key' = SerpApiKey(None, env_key)
               /\ enabled' = Enabled(SerpApiKey(None, env_key))
               /\ sources' = SourceList(SerpApiKey(None, env_key))
          ELSE /\ sources' = BaseSources
               /\ UNCHANGED <<serp_api_key, enabled>>
    /\ pc' = "aggregator_ready"
    /\ UNCHANGED <<raised, parserVars, src_idx, board_idx, requested, paused,
                   response, jobs, calls, faults, filterVars, textVars,
                   linkedinVars, searches, cuaVars>>

\* GoogleJobsSource.search_jobs without the test of self.enabled
GoogleSearchJobs_NoEnabledTest ==
    /\ pc = "google_ready"
    /\ \E resp \in GoogleResponses :
          /\ response' = resp
          /\ jobs' = GoogleJobs(resp)
    /\ searches' = Append(searches, GoogleParams(filters, serp_api_key))
    /\ pc' = "google_done"
    /\ UNCHANGED <<raised, parserVars, sources, src_idx, board_idx, requested,
                   paused, calls, faults, filterVars, textVars, linkedinVars,
                   serp_api_key, enabled, cuaVars>>

\* GoogleJobsSource.search_jobs(filters): a disabled source returns []
\* before anything else; an enabled one builds params, runs the search
\* and maps the results
GoogleSearchJobs ==
    /\ pc = "google_ready"
    /\ IF ~ enabled
       THEN /\ jobs' = <<>>
            /\ UNCHANGED <<response, searches>>
       ELSE /\ \E resp \in GoogleResponses :
                  /\ response' = resp
                  /\ jobs' = GoogleJobs(resp)
            /\ searches' =
                  Append(searches, GoogleParams(filters, serp_api_key))
    /\ pc' = "google_done"
    /\ UNCHANGED <<raised, parserVars, sources, src_idx, board_idx, requested,
                   paused, calls, faults, filterVars, textVars, linkedinVars,
                   serp_api_key, enabled, cuaVars>>

GoogleNext ==
    \/ GoogleConstruct
    \/ AggregatorConstruct
    \/ GoogleSearchJobs

GoogleSpec == GoogleInit /\ [][GoogleNext]_vars

(***************************************************************************)
(* src/ai_job_finder/linkedin_agent.py : LinkedInJobSearchAgent.run on a   *)
(* page of at most MaxCards job cards.  A card is what the control API     *)
(* reads from it: the texts title, company, location and listed_at, and    *)
(* the attributes data-job-id and data-job-url, absent when get_attr       *)
(* gives None.                                                             *)
(***************************************************************************)
\* most job cards on the page
MaxCards == 3

\* "ML"
T_ML == <<"M","L">>
\* "ml "
T_mlSpace == <<"m","l"," ">>
\* "QA"
T_QA == <<"Q","A">>
\* "OpenAI"
C_OpenAI == <<"O","p","e","n","A","I">>
\* "1 day ago"
D_1DayAgo == <<"1"," ","d","a","y"," ","a","g","o">>
\* "7"
I_7 == <<"7">>
\* "Search for machine learning roles"
Q_SearchRoles == <<"S","e","a","r","c","h"," ","f","o","r"," ","m","a","c",
    "h","i","n","e"," ","l","e","a","r","n","i","n","g"," ","r","o","l","e",
    "s">>

\* str(index)
IndexText(index) == <<<<"0", "1", "2", "3", "4", "5", "6", "7", "8", "9">>[index + 1]>>

\* int(card_count_raw) if card_count_raw else 0, 0 on ValueError
CardCount(card_count_raw) ==
    IF Strip(card_count_raw) = <<>> \/ Len(Strip(card_count_raw)) > 1
       \/ Strip(card_count_raw)[1] \notin Digits
    THEN 0
    ELSE CHOOSE n \in 0..9 : IndexText(n) = Strip(card_count_raw)

\* _collect_job_cards: the JobPosting built from the card at index
CardPosting(card, index) ==
    [job_id |-> Strip(IF Get(card, "job_id", <<>>) # <<>> THEN card["job_id"]
                      ELSE IndexText(index)),
     title |-> Strip(card["title"]),
     company |-> Strip(card["company"]),
     location |-> Strip(card["location"]),
     listed_at |-> Strip(card["listed_at"]),
     job_url |-> Strip(Get(card, "job_url", <<>>))]

\* _collect_job_cards: for index in range(card_count)
CollectJobCards(page, card_count) ==
    [i \in 1..card_count |-> CardPosting(page[i], i - 1)]

\* _deduplicate_jobs: identity
Identity(job) ==
    <<Lower(Strip(job["title"])), Lower(Strip(job["company"])),
      Lower(Strip(job["location"]))>>

\* LinkedInDedupLoop without the test of seen_identity
RECURSIVE LinkedInDedupLoop_IdsOnly(_, _, _, _, _)
LinkedInDedupLoop_IdsOnly(list, i, seen_ids, seen_identity, deduped) ==
    IF i > Len(list) THEN deduped
    ELSE IF Strip(list[i]["job_id"]) # <<>>
            /\ Strip(list[i]["job_id"]) \in seen_ids
    THEN LinkedInDedupLoop_IdsOnly(list, i + 1, seen_ids, seen_identity,
                                   deduped)
    ELSE LinkedInDedupLoop_IdsOnly(
             list, i + 1,
             IF Strip(list[i]["job_id"]) # <<>>
             THEN seen_ids \cup {Strip(list[i]["job_id"])} ELSE seen_ids,
             seen_identity \cup {Identity(list[i])},
             Append(deduped, list[i]))

\* _deduplicate_jobs: the loop.  A non-empty job_id already seen skips the
\* posting; otherwise the id is recorded, and the posting is kept unless
\* its identity was seen.
RECURSIVE LinkedInDedupLoop(_, _, _, _, _)
LinkedInDedupLoop(list, i, seen_ids, seen_identity, deduped) ==
    IF i > Len(list) THEN deduped
    ELSE IF Strip(list[i]["job_id"]) # <<>>
            /\ Strip(list[i]["job_id"]) \in seen_ids
    THEN LinkedInDedupLoop(list, i + 1, seen_ids, seen_identity, deduped)
    ELSE IF Identity(list[i]) \in seen_identity
    THEN LinkedInDedupLoop(
             list, i + 1,
             IF Strip(list[i]["job_id"]) # <<>>
             THEN seen_ids \cup {Strip(list[i]["job_id"])} ELSE seen_ids,
             seen_identity, deduped)
    ELSE LinkedInDedupLoop(
             list, i + 1,
             IF Strip(list[i]["job_id"]) # <<>>
             THEN seen_ids \cup {Strip(list[i]["job_id"])} ELSE seen_ids,
             seen_identity \cup {Identity(list[i])},
             Append(deduped, list[i]))

\* _deduplicate_jobs(jobs)
LinkedInDeduplicate(list) == LinkedInDedupLoop(list, 1, {}, {}, <<>>)

\* from_task and to_query_params for the str filters, then
\* {"keywords": goal, **query_params}
SearchParams(goal, fs) ==
    [k \in {"keywords"}
         \cup {f \in DOMAIN fs \cap {"keywords", "location", "date_posted"} :
                 fs[f] # <<>>} |->
        IF k \in DOMAIN fs /\ fs[k] # <<>> THEN fs[k] ELSE goal]

\* the cards a page may show
CardPool ==
    {[title |-> t, company |-> C_OpenAI, location |-> L_Remote,
      listed_at |-> D_1DayAgo, job_url |-> U_url1] : t \in {T_ML, T_mlSpace, T_QA}}
    \cup {[job_id |-> id, title |-> t, company |-> C_OpenAI,
           location |-> L_Remote, listed_at |-> D_1DayAgo] :
             id \in {W_Space, I_1, I_7}, t \in {T_ML, T_mlSpace, T_QA}}

CardSeqs == UNION {[1..n -> CardPool] : n \in 0..MaxCards}

\* the filters argument of run
TaskFilters == {EmptyFilter, [location |-> L_Remote]}

\* what get_attr gives for data-card-count on a page
CardCounts(page) == {<<>>, <<"x">>, IndexText(Len(page))}

LinkedInInit ==
    /\ pc = "linkedin_ready"
    /\ raised = None
    /\ api_key = None
    /\ client = FALSE
    /\ query = <<>>
    /\ ai_response = NotCalled
    /\ sources = <<>>
    /\ src_idx = 0
    /\ board_idx = 1
    /\ requested = <<>>
    /\ paused = FALSE
    /\ response = NoResponse
    /\ jobs = <<>>
    /\ calls = <<>>
    /\ faults = {}
    /\ filters = EmptyFilter
    /\ all_jobs = <<>>
    /\ filtered_jobs = <<>>
    /\ unique_jobs = <<>>
    /\ text = <<>>
    /\ normalized = <<>>
    /\ cards \in CardSeqs
    /\ raw_results = <<>>
    /\ last_results = <<>>
    /\ opened_urls = <<>>
    /\ serp_api_key = None
    /\ enabled = FALSE
    /\ searches = <<>>
    /\ now = 0
    /\ start_time = 0
    /\ timeout = 0
    /\ poll_interval = 0
    /\ polls = 0
    /\ poll = NoPoll
    /\ data = NoPoll

\* run(goal, filters): _validate_goal raises ValueError on an empty goal;
\* otherwise the search URL is opened, the cards are collected and
\* deduplicated, and the result is kept in _last_results and returned
LinkedInRun ==
    /\ pc = "linkedin_ready"
    /\ \E goal \in {<<>>, Q_SearchRoles}, fs \in TaskFilters,
          card_count_raw \in CardCounts(cards) :
          IF goal = <<>>
          THEN /\ raised' = "ValueError"
               /\ pc' = "failed"
               /\ UNCHANGED <<raw_results, last_results, opened_urls>>
          ELSE /\ opened_urls' = Append(opened_urls, SearchParams(goal, fs))
               /\ raw_results' =
                     CollectJobCards(cards, CardCount(card_count_raw))
               /\ last_results' = LinkedInDeduplicate(raw_results')
               /\ pc' = "linkedin_done"
               /\ UNCHANGED raised
    /\ UNCHANGED <<parserVars, sourceVars, filterVars, textVars, googleVars,
                   cards, cuaVars>>

LinkedInNext == LinkedInRun

LinkedInSpec == LinkedInInit /\ [][LinkedInNext]_vars

(***************************************************************************)
(* src/ai_job_finder/client.py : CUAClient.wait_for_completion.  Time is   *)
(* counted in ticks of the monotonic clock; a session.get takes at least   *)
(* one tick, time.sleep(poll_interval) takes poll_interval ticks.          *)
(***************************************************************************)
\* largest timeout argument
MaxTimeout == 3

\* longest a session.get takes, and largest poll_interval argument
MaxPollTime == 2

\* the status values data.get("status") gives; "missing" is a body
\* without the key
Statuses == {"succeeded", "failed", "running", "missing"}

\* what session.get gives: a response that is not ok, or an ok response
\* with the session data
PollOutcomes ==
    {[ok |-> FALSE, status |-> "missing"]}
    \cup {[ok |-> TRUE, status |-> st] : st \in Statuses}

\* the state after start_time = time.monotonic()
WaitInit ==
    /\ pc = "cua_waiting"
    /\ raised = None
    /\ api_key = None
    /\ client = FALSE
    /\ query = <<>>
    /\ ai_response = NotCalled
    /\ sources = <<>>
    /\ src_idx = 0
    /\ board_idx = 1
    /\ requested = <<>>
    /\ paused = FALSE
    /\ response = NoResponse
    /\ jobs = <<>>
    /\ calls = <<>>
    /\ faults = {}
    /\ filters = EmptyFilter
    /\ all_jobs = <<>>
    /\ filtered_jobs = <<>>
    /\ unique_jobs = <<>>
    /\ text = <<>>
    /\ normalized = <<>>
    /\ cards = <<>>
    /\ raw_results = <<>>
    /\ last_results = <<>>
    /\ opened_urls = <<>>
    /\ serp_api_key = None
    /\ enabled = FALSE
    /\ searches = <<>>
    /\ start_time \in {0, 3}
    /\ now = start_time
    /\ timeout \in (-1)..MaxTimeout
    /\ poll_interval \in 0..MaxPollTime
    /\ polls = 0
    /\ poll = NoPoll
    /\ data = NoPoll

\* WaitPoll with the timeout tested before the status
WaitPoll_TimeoutFirst ==
    /\ pc = "cua_waiting"
    /\ \E outcome \in PollOutcomes, took \in 1..MaxPollTime :
          /\ poll' = outcome
          /\ IF ~ outcome.ok
             THEN /\ raised' = "CUAClientError"
                  /\ pc' = "failed"
                  /\ now' = now + took
                  /\ UNCHANGED data
             ELSE IF (now + took) - start_time > timeout
             THEN /\ raised' = "TimeoutError"
                  /\ pc' = "failed"
                  /\ now' = now + took
                  /\ UNCHANGED data
             ELSE IF outcome.status \in {"succeeded", "failed"}
             THEN /\ data' = outcome
                  /\ pc' = "cua_returned"
                  /\ now' = now + took
                  /\ UNCHANGED raised
             ELSE /\ now' = now + took + poll_interval
                  /\ UNCHANGED <<pc, raised, data>>
    /\ polls' = polls + 1
    /\ UNCHANGED <<parserVars, sourceVars, filterVars, textVars,
                   linkedinVars, googleVars, start_time, timeout,
                   poll_interval>>

\* one iteration of "while True": session.get, _ensure_success, the test
\* of the status, the test of the elapsed time, time.sleep(poll_interval)
WaitPoll ==
    /\ pc = "cua_waiting"
    /\ \E outcome \in PollOutcomes, took \in 1..MaxPollTime :
          /\ poll' = outcome
          /\ IF ~ outcome.ok
             THEN /\ raised' = "CUAClientError"
                  /\ pc' = "failed"
                  /\ now' = now + took
                  /\ UNCHANGED data
             ELSE IF outcome.status \in {"succeeded", "failed"}
             THEN /\ data' = outcome
                  /\ pc' = "cua_returned"
                  /\ now' = now + took
                  /\ UNCHANGED raised
             ELSE IF (now + took) - start_time > timeout
             THEN /\ raised' = "TimeoutError"
                  /\ pc' = "failed"
                  /\ now' = now + took
                  /\ UNCHANGED data
             ELSE /\ now' = now + took + poll_interval
                  /\ UNCHANGED <<pc, raised, data>>
    /\ polls' = polls + 1
    /\ UNCHANGED <<parserVars, sourceVars, filterVars, textVars,
                   linkedinVars, googleVars, start_time, timeout,
                   poll_interval>>

WaitNext == WaitPoll

WaitSpec == WaitInit /\ [][WaitNext]_vars

\* the loop runs on as long as it has not returned or raised
WaitLiveSpec == WaitSpec /\ WF_vars(WaitNext)

(***************************************************************************)
(* Properties.                                                             *)
(***************************************************************************)
\* the maximal runs of non-whitespace characters of s, as a set
WordsOf(s) ==
    { SubSeq(s, i, j) : <<i, j>> \in
        { ij \in (1..Len(s)) \X (1..Len(s)) :
            /\ ij[1] <= ij[2]
            /\ \A k \in ij[1]..ij[2] : s[k] \notin Whitespace
            /\ ij[1] = 1 \/ s[ij[1] - 1] \in Whitespace
            /\ ij[2] = Len(s) \/ s[ij[2] + 1] \in Whitespace } }

\* t occurs in s, letter case ignored
OccursIn(t, s) ==
    \E i \in 1..(Len(s) - Len(t) + 1) :
        \A k \in 1..Len(t) : LowerChar(s[i + k - 1]) = LowerChar(t[k])

\* a field of a posting, "" when the posting has no such key
Field(p, k) == IF k \in DOMAIN p THEN p[k] ELSE <<>>

\* a constraint is present when its key is there with a non-empty value
Present(f, k) ==
    k \in DOMAIN f /\ (IF k = "remote" THEN f[k] ELSE Len(f[k]) > 0)

Elems(xs) == {xs[i] : i \in 1..Len(xs)}

RoleHolds(p, f) ==
    \E w \in WordsOf(f["role"]) :
        OccursIn(w, Field(p, "title")) \/ OccursIn(w, Field(p, "description"))

LocationHolds(p, f) == OccursIn(f["location"], Field(p, "location"))

ExcludeLanguageHolds(p, f) ==
    \A lang \in Elems(f["exclude_language"]) :
        \A phrase \in Elems(LanguagePatterns(Lower(lang))) :
            /\ ~ OccursIn(phrase, Field(p, "title"))
            /\ ~ OccursIn(phrase, Field(p, "description"))

LanguageRequiredHolds(p, f) ==
    \A lang \in Elems(f["language_required"]) :
        OccursIn(lang, Field(p, "description"))

KeywordsHolds(p, f) ==
    \A kw \in Elems(f["keywords"]) :
        OccursIn(kw, Field(p, "title")) \/ OccursIn(kw, Field(p, "description"))

RemoteHolds(p, f) ==
    \E kw \in Elems(RemoteKeywords) :
        OccursIn(kw, Field(p, "location")) \/ OccursIn(kw, Field(p, "description"))

AllPresentConstraintsHold(p, f) ==
    /\ Present(f, "role") => RoleHolds(p, f)
    /\ Present(f, "location") => LocationHolds(p, f)
    /\ Present(f, "exclude_language") => ExcludeLanguageHolds(p, f)
    /\ Present(f, "language_required") => LanguageRequiredHolds(p, f)
    /\ Present(f, "keywords") => KeywordsHolds(p, f)
    /\ Present(f, "remote") => RemoteHolds(p, f)

Filtered == pc \in {"filtered", "done"}

\* C1: the posting "Registered Nurse" / "Amsterdam, Netherlands" /
\* "English speaking environment. No Dutch required." matches the filter
\* {role: "nurse", exclude_language: ["Dutch"]}, so filter_jobs keeps it.
C1_NurseNoDutchMatches ==
    (Filtered /\ filters = FilterNurseNoDutch
              /\ all_jobs = <<JobRegisteredNurse>>)
        => filtered_jobs = <<JobRegisteredNurse>>

\* C2: with a filter dict that has no key at all, filter_jobs returns
\* every input posting.
C2_EmptyFilterKeepsAll ==
    (Filtered /\ DOMAIN filters = {}) => filtered_jobs = all_jobs

C2_Witness ==
    /\ Filtered /\ DOMAIN filters = {}
    /\ Len(all_jobs) >= 2 /\ filtered_jobs = all_jobs

\* C3: filter_jobs keeps, in input order, exactly the postings for which
\* every present constraint (role, location, exclude_language,
\* language_required, keywords, remote) holds.
C3_FilterIsConjunction ==
    Filtered =>
        LET passes(p) == AllPresentConstraintsHold(p, filters)
        IN  filtered_jobs = SelectSeq(all_jobs, passes)

C3_Witness ==
    /\ Filtered
    /\ Present(filters, "language_required") /\ Present(filters, "keywords")
    /\ Len(all_jobs) >= 2
    /\ Len(filtered_jobs) = 1
    /\ filtered_jobs[1] = all_jobs[2]

\* parse_query has been called
Parsed == pc \notin {"new", "constructed"}

\* the completion gave parse_query a dict
GaveObject(r) ==
    \/ r.kind = "text" /\ r.decoded.t = "object"
    \/ r.kind = "structured" /\ r.raw.t = "object"

ObjectOf(r) == IF r.kind = "text" THEN r.decoded.obj ELSE r.raw.obj

\* the value of k in d is there and is not "", [], False (or 0)
NonEmpty(d, k) ==
    /\ k \in DOMAIN d
    /\ CASE k \in BoolKeys -> d[k]
         [] k \in NumKeys -> d[k] > 0
         [] OTHER -> Len(d[k]) > 0

\* C4: when the completion gives a filter object, every field of the
\* compiled filter dict is the AI value if that one is present and
\* non-empty, and otherwise the heuristic value if the heuristic has one.
C4_MergePrefersAi ==
    (Parsed /\ client /\ GaveObject(ai_response)) =>
        /\ pc = "fetching"
        /\ \A k \in FilterKeys \cup NumKeys :
              IF NonEmpty(ObjectOf(ai_response), k)
              THEN k \in DOMAIN filters
                   /\ filters[k] = ObjectOf(ai_response)[k]
              ELSE k \in DOMAIN LocalParse(query) =>
                       k \in DOMAIN filters
                       /\ filters[k] = LocalParse(query)[k]

C4_Witness ==
    /\ Parsed /\ client
    /\ ai_response = Text(JObject(AiLocationUtrecht))
    /\ LocalParse(query) = [role |-> T_Nurse, location |-> L_Amsterdam]
    /\ filters = [location |-> W_Utrecht, role |-> T_Nurse]

\* the AI extractor produced no result: no client, the call raised, or the
\* content is not JSON
NoAiResult ==
    ~ client \/ ai_response.kind \in {"raise", "undecodable"}

\* C5: when the AI extractor produces no result, parse_query returns
\* exactly what local_parse gives for the query.
C5_FallbackIsHeuristic ==
    (Parsed /\ NoAiResult) =>
        pc = "fetching" /\ raised = None /\ filters = LocalParse(query)

C5_Witness ==
    /\ Parsed /\ client /\ ai_response = Undecodable
    /\ query = Q_NurseUtrecht
    /\ filters = [role |-> T_Nurse, location |-> W_Utrecht,
                  exclude_language |-> <<W_Dutch>>]

\* C6: whatever the completion call does, parse_query returns a filter
\* dict and no exception leaves it.
C6_ParseQueryNeverRaises == Parsed => (raised = None /\ pc # "failed")

\* C7: constructing the parser with no api_key argument and no
\* OPENAI_API_KEY fails with a ValueError.
C7_NoKeyRaisesValueError ==
    (pc # "new" /\ api_key = None) => raised = "ValueError"

\* s is a prefix of t
IsPrefix(s, t) == Len(s) <= Len(t) /\ SubSeq(t, 1, Len(s)) = s

\* the source names of the postings of a list
SourcesIn(list) == {list[i]["source"] : i \in 1..Len(list)}

\* the company names of the postings of a list
CompaniesIn(list) == {list[i]["company"] : i \in 1..Len(list)}

C8_State ==
    /\ raised = None /\ pc # "failed"
    /\ \A f \in faults : SourceText(f) \notin SourcesIn(all_jobs)
    /\ pc = "fetched" => calls = sources
    /\ (pc = "fetching" /\ response.kind = "http" /\ response.status # 200)
          => Title(Boards(Source)[board_idx - 1]) \notin CompaniesIn(jobs)

C8_Step == pc = "fetching" => IsPrefix(all_jobs, all_jobs')

\* C8: search_all_sources never raises; an adapter that raises contributes
\* no posting, the postings collected before stay and every later adapter
\* is still invoked; a board that answers with an HTTP error contributes
\* no posting while the other boards of the adapter do.
C8_AggregatorIsolatesFailures == [](C8_State) /\ [][C8_Step]_vars

C8_Witness ==
    /\ pc = "fetching"
    /\ faults = {"Lever"}
    /\ calls = <<"Greenhouse", "Lever">>
    /\ Source = "Workable"
    /\ SourcesIn(all_jobs) = {N_Greenhouse}
    /\ board_idx = 3
    /\ response = HttpError(404)
    /\ CompaniesIn(jobs) = {Title(B_signifyd)}

\* C9: the list search returns holds only postings that match the
\* filters, holds no two postings with the same DedupKey, and holds, for
\* every DedupKey, the first matching posting of the raw list.
C9_SearchFiltersThenDedups ==
    pc = "done" =>
        LET passes(p) == AllPresentConstraintsHold(p, filters)
        IN  /\ \A i \in 1..Len(unique_jobs) : passes(unique_jobs[i])
            /\ \A i \in 1..Len(unique_jobs) : \A j \in 1..(i - 1) :
                   DedupKey(unique_jobs[i]) # DedupKey(unique_jobs[j])
            /\ \A i \in 1..Len(all_jobs) :
                   ( /\ passes(all_jobs[i])
                     /\ \A j \in 1..(i - 1) :
                           passes(all_jobs[j]) =>
                               DedupKey(all_jobs[j]) # DedupKey(all_jobs[i]) )
                   => all_jobs[i] \in Elems(unique_jobs)
            /\ Elems(unique_jobs) \subseteq Elems(all_jobs)

C9_Witness ==
    /\ pc = "done"
    /\ Len(unique_jobs) >= 1
    /\ Len(filtered_jobs) > Len(unique_jobs)
    /\ Len(all_jobs) > Len(filtered_jobs)
    /\ ~ AllPresentConstraintsHold(all_jobs[1], filters)
    /\ DedupKey(all_jobs[1]) = DedupKey(unique_jobs[1])

\* the positions of jobs that hold the first posting with their DedupKey
FirstOfKey(list) ==
    { i \in 1..Len(list) :
        \A j \in 1..(i - 1) : DedupKey(list[j]) # DedupKey(list[i]) }

\* the k-th smallest element of a set of numbers
KthOf(S, k) == CHOOSE i \in S : Cardinality({j \in S : j <= i}) = k

\* C10: the output of deduplicate_jobs is the subsequence of its input
\* made of the first posting, in input order, of each DedupKey.
C10_DedupKeepsFirstInOrder ==
    pc = "done" =>
        LET firsts == FirstOfKey(filtered_jobs)
        IN  /\ Len(unique_jobs) = Cardinality(firsts)
            /\ \A k \in 1..Len(unique_jobs) :
                    unique_jobs[k] = filtered_jobs[KthOf(firsts, k)]

C10_Witness ==
    /\ pc = "done"
    /\ Len(filtered_jobs) >= 2
    /\ filtered_jobs[1] # filtered_jobs[2]
    /\ DedupKey(filtered_jobs[1]) = DedupKey(filtered_jobs[2])
    /\ unique_jobs = <<filtered_jobs[1]>>

\* C11: deduplicate_jobs is idempotent: applied to its own output it
\* returns that output, for the list search hands it and for every raw
\* posting list.
C11_DedupIdempotent ==
    /\ DeduplicateJobs(DeduplicateJobs(all_jobs)) = DeduplicateJobs(all_jobs)
    /\ pc = "done" => DeduplicateJobs(unique_jobs) = unique_jobs

C11_Witness ==
    /\ pc = "done"
    /\ Len(filtered_jobs) = 2
    /\ filtered_jobs[1] # filtered_jobs[2]
    /\ Len(unique_jobs) = 1
    /\ DeduplicateJobs(unique_jobs) = unique_jobs

\* job with the field f set to v
Relabel(job, f, v) ==
    [k \in DOMAIN job \cup {f} |-> IF k = f THEN v ELSE job[k]]

\* job and the postings that differ from it in id, location or url only
VariantsOf(job) ==
    {job, Relabel(job, "id", I_1), Relabel(job, "location", L_Rotterdam),
     Relabel(job, "url", U_url2)}

\* the posting lists that agree with list, position by position, on the
\* normalized title and company
SameKeySeqs(list) ==
    {ys \in JobSeqs :
        /\ Len(ys) = Len(list)
        /\ \A i \in 1..Len(list) : DedupKey(ys[i]) = DedupKey(list[i])}
    \cup {ys \in [1..Len(list) -> UNION {VariantsOf(list[i]) : i \in 1..Len(list)}] :
            \A i \in 1..Len(list) : ys[i] \in VariantsOf(list[i])}

\* the postings of list at the positions S, in order
Pick(list, S) ==
    LET F[i \in 0..Len(list)] ==
            IF i = 0 THEN <<>>
            ELSE IF i \in S THEN Append(F[i - 1], list[i]) ELSE F[i - 1]
    IN  F[Len(list)]

\* C12: the positions deduplicate_jobs keeps depend only on the sequence
\* of (normalized title, normalized company) keys: every list that agrees
\* with the input on those keys, whatever its id, location and url fields,
\* has the same positions kept.
C12_DedupReadsOnlyKeys ==
    pc = "done" =>
        \A ys \in SameKeySeqs(filtered_jobs) :
            \E S \in SUBSET (1..Len(filtered_jobs)) :
                /\ unique_jobs = Pick(filtered_jobs, S)
                /\ DeduplicateJobs(ys) = Pick(ys, S)

C12_Witness ==
    /\ pc = "done"
    /\ filtered_jobs = <<JobEngineerAmsterdam, JobEngineerRotterdam>>
    /\ unique_jobs = <<JobEngineerAmsterdam>>
    /\ << Relabel(JobEngineerAmsterdam, "location", L_Rotterdam),
          Relabel(JobEngineerRotterdam, "id", I_1) >>
          \in SameKeySeqs(filtered_jobs)

\* s with the letter at one position in the other case
CaseFlips(s) ==
    {[s EXCEPT ![i] = UpperChar(s[i])] : i \in 1..Len(s)}
    \cup {[s EXCEPT ![i] = LowerChar(s[i])] : i \in 1..Len(s)}

\* s with one whitespace character more, in front, at the end or next to
\* a whitespace character, or with one whitespace character replaced by
\* another
Respacings(s) ==
    {SubSeq(s, 1, i) \o <<w>> \o SubSeq(s, i + 1, Len(s)) :
        <<i, w>> \in {iw \in (0..Len(s)) \X Whitespace :
                        \/ iw[1] = 0
                        \/ iw[1] = Len(s)
                        \/ s[iw[1]] \in Whitespace
                        \/ s[iw[1] + 1] \in Whitespace}}
    \cup {[s EXCEPT ![iw[1]] = iw[2]] :
            iw \in {jw \in (1..Len(s)) \X Whitespace : s[jw[1]] \in Whitespace}}

\* s is lowercase, single-spaced and trimmed
IsCanonical(s) ==
    /\ \A i \in 1..Len(s) : s[i] \in LowerLetters \cup Digits \cup {" "}
    /\ \A i \in 1..(Len(s) - 1) : ~ (s[i] = " " /\ s[i + 1] = " ")
    /\ s # <<>> => (s[1] # " " /\ s[Len(s)] # " ")

\* C13: _normalize_text is idempotent, gives a lowercase, single-spaced,
\* trimmed text, and gives the same text for strings that differ in the
\* case of a letter, in the length of a run of whitespace or in leading or
\* trailing whitespace.
C13_NormalizeIdempotentInsensitive ==
    pc = "normalized" =>
        /\ NormalizeText(normalized) = normalized
        /\ IsCanonical(normalized)
        /\ \A t \in CaseFlips(text) \cup Respacings(text) :
               NormalizeText(t) = normalized

C13_Witness ==
    /\ pc = "normalized"
    /\ text = T_SoftwareEngineer2
    /\ normalized = Lower(T_SoftwareEngineer)
    /\ T_SoftwareEngineer2 # Lower(T_SoftwareEngineer)

\* the words X for which q contains "no X required", "no X needed" or
\* "no X necessary", letter case ignored
PhraseWords(q) ==
    { SubSeq(q, ij[1] + 3, ij[2]) : ij \in
        { xy \in (1..Len(q)) \X (1..Len(q)) :
            /\ xy[1] + 3 <= xy[2]
            /\ StartsWithAt(Lower(q), xy[1], K_no \o <<" ">>)
            /\ \A k \in (xy[1] + 3)..xy[2] : q[k] \in Letters
            /\ \E n \in 1..Len(NegationSuffixes) :
                  StartsWithAt(Lower(q), xy[2] + 1,
                               <<" ">> \o NegationSuffixes[n]) } }

\* C14: for every query that contains "no X required", "no X needed" or
\* "no X necessary", X one alphabetic word, the exclude_language list of
\* the heuristic extractor contains X in title case.
C14_NoXRequiredExcludesX ==
    pc = "fetching" =>
        \A X \in PhraseWords(query) :
            /\ "exclude_language" \in DOMAIN filters
            /\ Title(X) \in Items(filters["exclude_language"])

\* C15: when the AI extractor gives nothing, the query "nurse in Utrecht,
\* no Dutch required" compiles to role "Nurse", location "Utrecht" and
\* exclude_language ["Dutch"], and to no other field.
C15_NurseUtrechtScenario ==
    (Parsed /\ NoAiResult /\ query = Q_NurseUtrecht) =>
        /\ raised = None
        /\ DOMAIN filters = {"role", "location", "exclude_language"}
        /\ filters["role"] = T_Nurse
        /\ filters["location"] = W_Utrecht
        /\ filters["exclude_language"] = <<W_Dutch>>

C15_Witness ==
    /\ pc = "fetching"
    /\ ~ client
    /\ ai_response = NotCalled
    /\ query = Q_NurseUtrecht
    /\ DOMAIN filters = {"role", "location", "exclude_language"}

\* C16: the heuristic extractor never raises; the empty query gives the
\* empty filter set; every field it emits is non-empty: remote is only
\* ever true, the lists have at least one item and no empty item, and the
\* strings are non-empty.
C16_HeuristicTotalNoEmptyField ==
    /\ pc # "failed"
    /\ raised = None
    /\ pc = "fetching" =>
          /\ query = <<>> => DOMAIN filters = {}
          /\ DOMAIN filters \subseteq
                {"exclude_language", "location", "remote", "role", "keywords"}
          /\ "remote" \in DOMAIN filters => filters["remote"] = TRUE
          /\ \A k \in DOMAIN filters \cap {"location", "role"} :
                filters[k] # <<>>
          /\ \A k \in DOMAIN filters \cap {"exclude_language", "keywords"} :
                /\ filters[k] # <<>>
                /\ \A x \in Items(filters[k]) : x # <<>>

C16_Witness ==
    /\ pc = "fetching"
    /\ ~ client
    /\ query = <<>>
    /\ DOMAIN filters = {}

\* C17: a GoogleJobsSource without a SerpApi key is disabled, and its
\* search_jobs returns the empty list for any filters without making a
\* search call; JobAggregator has the Google source in its list only when
\* that source is enabled, and always has the three base sources first.
C17_DisabledGoogleSource ==
    /\ (pc \in {"google_ready", "google_done"} /\ serp_api_key \in {None, ""})
          => ~ enabled
    /\ (pc = "google_done" /\ ~ enabled)
          => jobs = <<>> /\ searches = <<>> /\ response = NoResponse
    /\ pc = "aggregator_ready" =>
          /\ SubSeq(sources, 1, 3) = BaseSources
          /\ Len(sources) \in {3, 4}
          /\ "Google Jobs" \in Items(sources) => enabled
          /\ Len(sources) = 4 => sources[4] = "Google Jobs"

C17_Witness ==
    /\ pc = "google_done"
    /\ serp_api_key = None
    /\ ~ enabled
    /\ filters = [role |-> W_engineer]
    /\ jobs = <<>>
    /\ searches = <<>>
    /\ now = 0
    /\ start_time = 0
    /\ timeout = 0
    /\ poll_interval = 0
    /\ polls = 0
    /\ poll = NoPoll
    /\ data = NoPoll

\* C18: in the list search_all_sources returns, every posting has a
\* non-empty id and no two postings have the same id, whatever items the
\* boards answered with.
C18_IdsNonEmptyUnique ==
    pc = "fetched" =>
        /\ \A i \in 1..Len(all_jobs) : all_jobs[i].id # <<>>
        /\ \A i, j \in 1..Len(all_jobs) :
              all_jobs[i].id = all_jobs[j].id => i = j

\* the position in self.sources of the adapter that wrote a posting
SourceRank(job) ==
    CHOOSE r \in 1..Len(sources) : SourceText(sources[r]) = job["source"]

C19_State ==
    /\ IsPrefix(calls, sources)
    /\ pc = "fetched" => calls = sources
    /\ \A i, j \in 1..Len(all_jobs) :
          i < j => SourceRank(all_jobs[i]) <= SourceRank(all_jobs[j])

C19_Step ==
    pc = "fetching" =>
        IF calls' = calls THEN all_jobs' = all_jobs
        ELSE /\ calls' = Append(calls, Source)
             /\ IF Source \in faults' \ faults THEN all_jobs' = all_jobs
                ELSE IF Source = "Google Jobs"
                THEN \E resp \in GoogleResponses :
                        all_jobs' = all_jobs \o GoogleJobs(resp)
                ELSE all_jobs' = all_jobs \o jobs

\* C19: search_all_sources calls the sources in list order (Greenhouse,
\* Lever, Workable, then Google Jobs when enabled) and returns the
\* concatenation of what each returned: each source's postings are
\* appended whole and in their order behind those of the earlier sources,
\* and nothing is dropped, merged or deduplicated.
C19_ConcatenatesInSourceOrder == [](C19_State) /\ [][C19_Step]_vars

C19_Witness ==
    /\ pc = "fetched"
    /\ Len(sources) = 4
    /\ faults = {}
    /\ Len(all_jobs) = 4
    /\ all_jobs[1] = all_jobs[2]
    /\ all_jobs[1]["source"] = N_Greenhouse
    /\ all_jobs[3]["source"] = N_Workable
    /\ all_jobs[4]["source"] = N_GoogleJobs

\* the postings of the returned list, taken in card order out of the
\* cards the run collected
InCardOrder ==
    /\ Len(raw_results) <= Len(cards)
    /\ \A i \in 1..Len(raw_results) :
          raw_results[i]["title"] = Strip(cards[i]["title"])
    /\ \E S \in SUBSET (1..Len(raw_results)) :
          last_results = Pick(raw_results, S)

\* no two returned postings have the same trimmed, lower-cased
\* (title, company, location)
DistinctIdentities ==
    \A i, j \in 1..Len(last_results) :
        Identity(last_results[i]) = Identity(last_results[j]) => i = j

\* C20 as stated: run returns no two postings with the same job_id and no
\* two with the same identity, in first-seen card order.
C20_RunReturnsDistinctJobIds ==
    pc = "linkedin_done" =>
        /\ \A i, j \in 1..Len(last_results) :
              last_results[i]["job_id"] = last_results[j]["job_id"] => i = j
        /\ DistinctIdentities
        /\ InCardOrder

\* C20, amended: run returns no two postings with the same non-empty
\* job_id and no two with the same case-insensitive, trimmed (title,
\* company, location) identity, in first-seen card order; postings whose
\* job_id is empty are told apart by identity alone.
C20_RunReturnsDeduplicated ==
    pc = "linkedin_done" =>
        /\ \A i, j \in 1..Len(last_results) :
              (/\ last_results[i]["job_id"] # <<>>
               /\ last_results[i]["job_id"] = last_results[j]["job_id"])
                  => i = j
        /\ DistinctIdentities
        /\ InCardOrder

C20_Witness ==
    /\ pc = "linkedin_done"
    /\ Len(cards) = 3
    /\ Len(raw_results) = 3
    /\ raw_results[1]["title"] = T_ML
    /\ raw_results[2]["title"] = T_QA
    /\ raw_results[3]["title"] = Lower(T_ML)
    /\ raw_results[1]["job_id"] = <<>>
    /\ raw_results[2]["job_id"] = <<>>
    /\ raw_results[3]["job_id"] = I_7
    /\ last_results = SubSeq(raw_results, 1, 2)

\* C21: within one fetch of a board adapter the 0.5 s pause has run
\* between every two consecutive board requests, whatever the earlier
\* request gave: when a further request is about to be made, time.sleep
\* has run since the last one.
C21_PauseBetweenRequests ==
    (/\ pc = "fetching"
     /\ requested # <<>>
     /\ board_idx <= Len(Boards(Source)))
        => paused

C22_State ==
    (pc = "fetching" /\ Source \in Items(BaseSources)) =>
        /\ board_idx <= Len(Boards(Source)) + 1
        /\ requested = SubSeq(Boards(Source), 1, board_idx - 1)
        /\ (/\ requested # <<>>
            /\ response.kind = "http"
            /\ response.status # 200)
              => Title(requested[Len(requested)]) \notin CompaniesIn(jobs)

C22_Step ==
    (/\ pc = "fetching"
     /\ Source \in Items(BaseSources)
     /\ calls' # calls
     /\ faults' = faults)
        => requested = Boards(Source)

\* C22: in one fetch of a board adapter the configured boards are
\* requested once each and in the configured order, whatever the filters
\* and whatever the earlier boards gave; the adapter returns only after
\* the last board, and a board answering with a status other than 200
\* contributes no posting.
C22_EveryBoardRequestedOnce == [](C22_State) /\ [][C22_Step]_vars

C22_Witness ==
    /\ pc = "fetching"
    /\ Source = "Workable"
    /\ faults = {}
    /\ filters = [role |-> W_engineer, location |-> L_Utrecht]
    /\ requested = Boards("Workable")
    /\ response = GetRaises
    /\ CompaniesIn(jobs) = {Title(B_signifyd)}

\* C23: the exclude_language list of the heuristic extractor never holds
\* the same string twice, however often a word is matched.
C23_ExcludedLanguagesDistinct ==
    (pc = "fetching" /\ "exclude_language" \in DOMAIN filters) =>
        \A i, j \in 1..Len(filters["exclude_language"]) :
            filters["exclude_language"][i] = filters["exclude_language"][j]
                => i = j

\* the query holds none of the words required, needed, necessary
NoRequiredWord(q) ==
    /\ ~ Contains(Lower(q), K_required)
    /\ ~ Contains(Lower(q), K_needed)
    /\ ~ Contains(Lower(q), K_necessary)

\* C24: the bare "no <word>" pattern never adds the words no and not
\* themselves: for a query without required, needed or necessary, neither
\* "No" nor "Not" is in exclude_language.
C24_NoAndNotNeverExcluded ==
    (/\ pc = "fetching"
     /\ NoRequiredWord(query)
     /\ "exclude_language" \in DOMAIN filters)
        => /\ Title(K_no) \notin Items(filters["exclude_language"])
           /\ Title(K_not) \notin Items(filters["exclude_language"])

\* the query is one alphabetic word other than with and but
OneWord(q) ==
    /\ q # <<>>
    /\ \A i \in 1..Len(q) : q[i] \in Letters
    /\ Lower(q) \notin {K_with, K_but}

\* C25: the role is the title-cased text before "in <location>" or the
\* first comma, less the "no <word>" fragments and the standalone words
\* with and but; a word that merely contains those letters is kept
\* whole.  For a query of one word the role is that word, title-cased.
C25_RoleKeepsWholeWords ==
    (pc = "fetching" /\ OneWord(query)) =>
        /\ "role" \in DOMAIN filters
        /\ filters["role"] = Title(Lower(query))

\* C26: every posting a source adapter emits has title, company,
\* location, description and url, each a string and never a null,
\* whatever fields the items of the boards have.
C26_PostingFieldsAreStrings ==
    \A i \in 1..Len(all_jobs) :
        \A k \in {"title", "company", "location", "description", "url"} :
            /\ k \in DOMAIN all_jobs[i]
            /\ all_jobs[i][k] # Null

C27_State ==
    /\ pc \in {"fetching", "fetched", "filtered", "done"}
          => filters = ParseQuery(client, ai_response, query).value
    /\ pc \in {"filtered", "done"}
          => Items(filtered_jobs) \subseteq Items(all_jobs)
    /\ pc = "done" => Items(unique_jobs) \subseteq Items(filtered_jobs)

C27_Step ==
    /\ pc \in {"fetching", "fetched", "filtered"} => filters' = filters
    /\ pc \in {"fetched", "filtered"} => all_jobs' = all_jobs
    /\ pc = "filtered" => filtered_jobs' = filtered_jobs

\* C27: from the return of parse_query on, the filter dict stays what
\* parse_query returned: no adapter, nor filter_jobs, nor
\* deduplicate_jobs changes its keys or values; filter_jobs and
\* deduplicate_jobs leave the list and the postings they are given as
\* they were, and return postings of that list.
C27_FiltersAndPostingsUnchanged == [](C27_State) /\ [][C27_Step]_vars

C27_Witness ==
    /\ pc = "done"
    /\ searches # <<>>
    /\ "role" \in DOMAIN filters
    /\ Len(all_jobs) = 3
    /\ Len(filtered_jobs) = 2
    /\ Len(unique_jobs) = 1

\* the position of the first item of the list whose mapping raises,
\* Len(items) + 1 when none does
FirstRaising(source, items) ==
    CHOOSE k \in 1..(Len(items) + 1) :
        /\ k <= Len(items) => MappingRaises(source, items[k])
        /\ \A m \in 1..(k - 1) : ~ MappingRaises(source, items[m])

\* C28: when the mapping of an item of a board raises, the postings of
\* the items of that board mapped before it stay in the adapter's list:
\* a board contributes the postings of its items up to the first one
\* that raises, in their order, and nothing else.
C28_MappedPrefixStays ==
    [][(/\ pc = "fetching"
        /\ board_idx' = board_idx + 1
        /\ response'.kind = "http" /\ response'.status = 200
        /\ response'.json)
          => jobs' = jobs \o
               [i \in 1..(FirstRaising(Source, response'.items) - 1) |->
                   BoardPosting(Source, Boards(Source)[board_idx],
                                response'.items[i])]]_vars

C28_Witness ==
    /\ pc = "fetching"
    /\ Source = "Greenhouse"
    /\ board_idx = 2
    /\ response = Listing(<<ItemEngineer, ItemNullLocation>>)
    /\ ~ paused
    /\ jobs = <<BoardPosting("Greenhouse", B_airbnb, ItemEngineer)>>

\* C29: _deduplicate_jobs discards a posting only if a posting it keeps
\* has the same non-empty job_id or the same identity: every posting of
\* the input shares its job_id or its identity with a posting of the
\* output.
C29_DiscardedHasKeptTwin ==
    pc = "linkedin_done" =>
        \A i \in 1..Len(raw_results) :
            \E j \in 1..Len(last_results) :
                \/ /\ raw_results[i]["job_id"] # <<>>
                   /\ raw_results[i]["job_id"] = last_results[j]["job_id"]
                \/ Identity(raw_results[i]) = Identity(last_results[j])

\* C30: wait_for_completion always terminates when every poll returns and
\* the clock advances.  It returns the session data of the first poll whose
\* status is "succeeded" or "failed", even when the timeout has elapsed; it
\* raises CUAClientError on a poll response that is not ok; otherwise it
\* raises TimeoutError at the first poll at which the elapsed time exceeds
\* the timeout.  It never returns data with another status, and it ends
\* only after at least one poll.
C30_State ==
    /\ pc \in {"cua_waiting", "cua_returned", "failed"}
    /\ pc = "cua_returned" =>
          /\ polls >= 1
          /\ raised = None
          /\ data = poll
          /\ data.ok
          /\ data.status \in {"succeeded", "failed"}
    /\ pc = "failed" =>
          /\ polls >= 1
          /\ data = NoPoll
          /\ raised \in {"CUAClientError", "TimeoutError"}
          /\ raised = "CUAClientError" <=> ~ poll.ok
          /\ raised = "TimeoutError" =>
                /\ poll.status \notin {"succeeded", "failed"}
                /\ now - start_time > timeout
    /\ pc = "cua_waiting" =>
          /\ raised = None
          /\ data = NoPoll
          /\ polls >= 1 =>
                /\ poll.ok
                /\ poll.status \notin {"succeeded", "failed"}
                /\ (now - poll_interval) - start_time <= timeout

C30_WaitTerminates ==
    /\ [](C30_State)
    /\ <>(pc \in {"cua_returned", "failed"})

\* the data of a later poll is returned after the timeout has elapsed
C30_Witness ==
    /\ pc = "cua_returned"
    /\ polls >= 2
    /\ data.status = "failed"
    /\ now - start_time > timeout
====
